---------------------------- MODULE Spec2Model ----------------------------
(***************************************************************************)
(* LatexGenCpp: the document-model-to-markup generation engine.            *)
(*                                                                         *)
(* Text is a sequence of tokens, each token a string.  Concatenation of    *)
(* std::string values is \o, the empty string is <<>>.  The text handed to *)
(* sanitizeMathContent is tokenised one character per token, so that the   *)
(* prefix comparisons and the substring replacements of that function are  *)
(* the ones of the source (an accented letter is one token: every pattern  *)
(* the source searches for starts on a UTF-8 character boundary).  The     *)
(* text produced by the renderers is tokenised by fragment: every literal  *)
(* the source searches for in rendered text ("{", "}",                     *)
(* "\begin{lstlisting}") is a token of its own.                            *)
(***************************************************************************)
EXTENDS Integers, Sequences, FiniteSets, TLC

VARIABLES
    content,        \* sanitizeMathContent: the argument
    result,         \* sanitizeMathContent: local result
    pos,            \* sanitizeMathContent: local pos (0-based)
    inMathMode,     \* sanitizeMathContent: local inMathMode
    startMathPos,   \* sanitizeMathContent: local startMathPos (0-based)
    sanPc,          \* sanitizeMathContent: "idle" | "loop" | "done"
    env,            \* a stand-alone Environment object (Table, Figure, ...)
    doc,            \* a Document object (Article, Report, Book, Presentation)
    out,            \* the text generate() returned for doc since the last mutating
                    \* call on it, <<>> when it was not called since
    calls,          \* history of calls made on doc or bib, in order (each specification
                    \* says which calls it records)
    bib,            \* a stand-alone Bibliography object
    files,          \* the file system generateBibFile writes to: its
                    \* directories (dirs) and its files with their text (data)
    ret             \* what the last call on bib returned ("none" before any)

sanVars == <<content, result, pos, inMathMode, startMathPos, sanPc>>
docVars == <<doc, out, calls>>
bibVars == <<bib, files, ret>>
vars == <<content, result, pos, inMathMode, startMathPos, sanPc, env, doc, out, calls,
          bib, files, ret>>

(***************************************************************************)
(* std::string primitives, positions 0-based as in the source.             *)
(***************************************************************************)
Min(a, b) == IF a < b THEN a ELSE b

npos == -1

\* s.substr(p, n)
Substr(s, p, n) == SubSeq(s, p + 1, Min(p + n, Len(s)))

\* s.compare(p, n, t) == 0
CompareEq(s, p, n, t) == Substr(s, p, n) = t

\* s.find(t, p)
Find(s, t, p) ==
    LET hits == {i \in p..(Len(s) - Len(t)) : Substr(s, i, Len(t)) = t}
    IN  IF hits = {} THEN npos
        ELSE CHOOSE i \in hits : \A j \in hits : i <= j

\* s.replace(p, n, t)
Replace(s, p, n, t) == SubSeq(s, 1, p) \o t \o SubSeq(s, p + n + 1, Len(s))

\* s.find(t) != npos
Contains(s, t) == Find(s, t, 0) # npos

RECURSIVE Flatten(_)
Flatten(ss) == IF ss = <<>> THEN <<>> ELSE Head(ss) \o Flatten(Tail(ss))

(***************************************************************************)
(* sanitizeMathContent (latexgen.cpp 10-96), one character per token.      *)
(***************************************************************************)
chBeginEquation == <<"\\","b","e","g","i","n","{","e","q","u","a","t","i","o","n","}">>
chEndEquation == <<"\\","e","n","d","{","e","q","u","a","t","i","o","n","}">>
chBeginEquationStar == <<"\\","b","e","g","i","n","{","e","q","u","a","t","i","o","n","*","}">>
chEndEquationStar == <<"\\","e","n","d","{","e","q","u","a","t","i","o","n","*","}">>
chBeginAlign == <<"\\","b","e","g","i","n","{","a","l","i","g","n","}">>
chEndAlign == <<"\\","e","n","d","{","a","l","i","g","n","}">>
chBeginAlignStar == <<"\\","b","e","g","i","n","{","a","l","i","g","n","*","}">>
chEndAlignStar == <<"\\","e","n","d","{","a","l","i","g","n","*","}">>
chDollar == <<"$">>
chDollarDollar == <<"$", "$">>

\* the vector mathEnvs, in its order
mathEnvs ==
    << chBeginEquation, chEndEquation, chBeginEquationStar, chEndEquationStar,
       chBeginAlign, chEndAlign, chBeginAlignStar, chEndAlignStar,
       chDollar, chDollarDollar >>

chProductivite == <<"P","r","o","d","u","c","t","i","v","i","t","é">>
chQualite == <<"Q","u","a","l","i","t","é">>
chDocuments == <<"D","o","c","u","m","e","n","t","s">>
chTemps == <<"T","e","m","p","s">>

\* "\\text{" + w + "}", the shape of every mapped value of the table
TextWrap(w) == <<"\\","t","e","x","t","{">> \o w \o <<"}">>

\* the std::map replacements, in its iteration order (keys ascending by byte:
\* the capitalised words, then the two-byte letters C3 A0, A7, A8, A9, AA, B9)
replacements ==
    << <<chDocuments, TextWrap(chDocuments)>>,
       <<chProductivite, TextWrap(chProductivite)>>,
       <<chQualite, TextWrap(chQualite)>>,
       <<chTemps, TextWrap(chTemps)>>,
       << <<"à">>, TextWrap(<<"à">>) >>,
       << <<"ç">>, TextWrap(<<"ç">>) >>,
       << <<"è">>, TextWrap(<<"è">>) >>,
       << <<"é">>, TextWrap(<<"é">>) >>,
       << <<"ê">>, TextWrap(<<"ê">>) >>,
       << <<"ù">>, TextWrap(<<"ù">>) >> >>

\* the one element of a set of one element: a local of the code is written
\* as the element of such a set, a value computed once
TheOne(S) == CHOOSE x \in S : TRUE

\* the inner while loop: every occurrence of first from repPos on
RECURSIVE ReplaceEvery(_, _, _, _)
ReplaceEvery(mathContent, first, second, repPos) ==
    TheOne({ IF f = npos THEN mathContent
             ELSE TheOne({ ReplaceEvery(replaced, first, second, f + Len(second)) :
                           replaced \in {Replace(mathContent, f, Len(first), second)} }) :
             f \in {Find(mathContent, first, repPos)} })

\* the for loop over replacements, from entry k on
RECURSIVE ApplyReplacements(_, _)
ApplyReplacements(mathContent, k) ==
    IF k > Len(replacements) THEN mathContent
    ELSE TheOne({ ApplyReplacements(replaced, k + 1) :
                  replaced \in {ReplaceEvery(mathContent, replacements[k][1],
                                             replacements[k][2], 0)} })

\* the for loop over mathEnvs: the index of the first marker that is a prefix
\* of the text at p, 0 when none is
FirstEnv(s, p) ==
    LET hits == {k \in 1..Len(mathEnvs) : CompareEq(s, p, Len(mathEnvs[k]), mathEnvs[k])}
    IN  IF hits = {} THEN 0
        ELSE CHOOSE k \in hits : \A j \in hits : k <= j

\* the part of the text a closing marker at st.pos rewrites
ClosedSpan(st) ==
    ApplyReplacements(Substr(st.result, st.startMathPos, st.pos - st.startMathPos), 1)

\* SanStep with the replacements run from the start of the text instead of
\* from startMathPos
SanStep_fromStart(st) ==
    LET k == FirstEnv(st.result, st.pos)
        rewritten == ApplyReplacements(Substr(st.result, 0, st.pos), 1)
    IN  IF k = 0 THEN [st EXCEPT !.pos = @ + 1]
        ELSE IF ~st.inMathMode
        THEN [st EXCEPT !.inMathMode = TRUE,
                        !.startMathPos = st.pos + Len(mathEnvs[k]),
                        !.pos = st.pos + Len(mathEnvs[k])]
        ELSE [st EXCEPT !.inMathMode = FALSE,
                        !.result = Replace(st.result, 0, st.pos, rewritten),
                        !.pos = Len(rewritten) + Len(mathEnvs[k])]

\* SanStep that goes back to the start of the span after rewriting it
SanStep_rescan(st) ==
    LET k == FirstEnv(st.result, st.pos)
    IN  IF k = 0 THEN [st EXCEPT !.pos = @ + 1]
        ELSE IF ~st.inMathMode
        THEN [st EXCEPT !.inMathMode = TRUE,
                        !.startMathPos = st.pos + Len(mathEnvs[k]),
                        !.pos = st.pos + Len(mathEnvs[k])]
        ELSE [st EXCEPT !.inMathMode = FALSE,
                        !.result = Replace(st.result, st.startMathPos,
                                           st.pos - st.startMathPos, ClosedSpan(st)),
                        !.pos = st.startMathPos]

\* one iteration of the while loop
SanStep(st) ==
    LET k == FirstEnv(st.result, st.pos)
    IN  IF k = 0 THEN [st EXCEPT !.pos = @ + 1]
        ELSE IF ~st.inMathMode
        THEN [st EXCEPT !.inMathMode = TRUE,
                        !.startMathPos = st.pos + Len(mathEnvs[k]),
                        !.pos = st.pos + Len(mathEnvs[k])]
        ELSE [st EXCEPT !.inMathMode = FALSE,
                        !.result = Replace(st.result, st.startMathPos,
                                           st.pos - st.startMathPos, ClosedSpan(st)),
                        !.pos = st.startMathPos + Len(ClosedSpan(st)) + Len(mathEnvs[k])]

SanStart(c) == [result |-> c, pos |-> 0, inMathMode |-> FALSE, startMathPos |-> 0]

RECURSIVE SanRun(_)
SanRun(st) == IF st.pos < Len(st.result) THEN SanRun(SanStep(st)) ELSE st

sanitizeMathContent(c) == SanRun(SanStart(c)).result


(***************************************************************************)
(* Environment and its variants (latexgen.h: part_001 507-1081).           *)
(* An Environment object is a record; kind tags the variant.               *)
(***************************************************************************)
BeginName(name) == <<"\\begin{", name, "}">>
EndName(name) == <<"\\end{", name, "}">>

\* Environment::begin / Environment::end; no variant overrides them
Environment_begin(e) == BeginName(e.m_name) \o <<"\n">>
Environment_end(e) == EndName(e.m_name) \o <<"\n">>

Table(headers, position) ==
    [kind |-> "Table", m_name |-> "table", m_headers |-> headers, m_rows |-> <<>>,
     m_caption |-> <<>>, m_label |-> <<>>, m_options |-> [k \in {"position"} |-> position]]

Figure(imagePath, position) ==
    [kind |-> "Figure", m_name |-> "figure", m_imagePath |-> imagePath,
     m_caption |-> <<>>, m_label |-> <<>>, m_width |-> <<"0.8", "\\textwidth">>,
     m_options |-> [k \in {"position"} |-> position]]

Equation(numbered) ==
    [kind |-> "Equation", m_name |-> IF numbered THEN "equation" ELSE "equation*",
     m_content |-> <<>>, m_label |-> <<>>]

List(type) ==
    [kind |-> "List",
     m_name |-> IF type = "ITEMIZE" THEN "itemize"
                ELSE IF type = "ENUMERATE" THEN "enumerate" ELSE "description",
     m_type |-> type, m_items |-> <<>>, m_itemLabels |-> <<>>]

Algorithm(caption) ==
    [kind |-> "Algorithm", m_name |-> "algorithm", m_caption |-> caption,
     m_label |-> <<>>, m_lines |-> <<>>]

getEnvironmentName(type) ==
    CASE type = "THEOREM" -> "theorem"
      [] type = "LEMMA" -> "lemma"
      [] type = "PROPOSITION" -> "proposition"
      [] type = "COROLLARY" -> "corollary"
      [] type = "DEFINITION" -> "definition"
      [] type = "EXAMPLE" -> "example"
      [] type = "REMARK" -> "remark"
      [] type = "PROOF" -> "proof"
      [] type = "CUSTOM" -> "customtheorem"
      [] OTHER -> "theorem"

TheoremEnvironment(type, thContent, title) ==
    [kind |-> "Theorem", m_name |-> getEnvironmentName(type), m_type |-> type,
     m_content |-> thContent, m_title |-> title, m_customType |-> ""]

TheoremEnvironmentCustom(customType, thContent, title) ==
    [kind |-> "Theorem", m_name |-> customType, m_type |-> "CUSTOM",
     m_content |-> thContent, m_title |-> title, m_customType |-> customType]

\* the setters and adders of the variants
setCaption(e, caption) == [e EXCEPT !.m_caption = caption]
setLabel(e, label) == [e EXCEPT !.m_label = label]
setWidth(e, width) == [e EXCEPT !.m_width = width]
setContent(e, c) == [e EXCEPT !.m_content = c]
setTitle(e, title) == [e EXCEPT !.m_title = title]
addRow(e, row) == [e EXCEPT !.m_rows = Append(@, row)]
addLine(e, line, indent) == [e EXCEPT !.m_lines = Append(@, <<line, indent>>)]

\* List::addItem: m_itemLabels is keyed by the 0-based index of the item;
\* it is kept here as a sequence of <<index, label>> pairs, one per key
addItem(e, item, label) ==
    [e EXCEPT !.m_items = Append(@, item),
              !.m_itemLabels = IF label # <<>> THEN Append(@, <<Len(e.m_items), label>>)
                               ELSE @]

\* "[" position "]" when m_options holds the key position
PositionOption(e) ==
    IF DOMAIN e.m_options # {} /\ "position" \in DOMAIN e.m_options
    THEN <<"[">> \o e.m_options["position"] \o <<"]">>
    ELSE <<>>

CaptionLine(e) ==
    IF e.m_caption # <<>> THEN <<"\\caption{">> \o e.m_caption \o <<"}", "\n">> ELSE <<>>

LabelLine(e) ==
    IF e.m_label # <<>> THEN <<"\\label{">> \o e.m_label \o <<"}", "\n">> ELSE <<>>

\* "|c" once per column
RECURSIVE Table_colspec(_)
Table_colspec(n) == IF n = 0 THEN <<>> ELSE <<"|c">> \o Table_colspec(n - 1)

\* Table_cells with the row loop bounded by row.size() alone
RECURSIVE Table_cells_unbounded(_, _, _)
Table_cells_unbounded(row, numCols, i) ==
    IF i < Len(row)
    THEN row[i + 1] \o (IF i < numCols - 1 THEN <<" & ">> ELSE <<>>)
         \o Table_cells_unbounded(row, numCols, i + 1)
    ELSE <<>>

\* the cell loop of one row, from the 0-based index i on: a cell is written
\* while i < row.size() and i < numCols, followed by " & " when i < numCols - 1
\* (numCols - 1 is only evaluated inside the loop, where numCols >= 1)
RECURSIVE Table_cells(_, _, _)
Table_cells(row, numCols, i) ==
    IF i < Len(row) /\ i < numCols
    THEN row[i + 1] \o (IF i < numCols - 1 THEN <<" & ">> ELSE <<>>)
         \o Table_cells(row, numCols, i + 1)
    ELSE <<>>

RowEnd == <<" \\\\ \\hline", "\n">>

\* one iteration of the loop over m_rows
Table_row(row, numCols) == Table_cells(row, numCols, 0) \o RowEnd

RECURSIVE Table_rows(_, _)
Table_rows(rows, numCols) ==
    IF rows = <<>> THEN <<>>
    ELSE Table_row(Head(rows), numCols) \o Table_rows(Tail(rows), numCols)

Table_generate(e) ==
    LET numCols == Len(e.m_headers)
    IN  BeginName("table") \o PositionOption(e) \o <<"\n", "\\centering", "\n">>
        \o <<"\\begin{tabular}{">> \o Table_colspec(numCols) \o <<"|}", "\n", "\\hline", "\n">>
        \o Table_cells(e.m_headers, numCols, 0) \o RowEnd
        \o Table_rows(e.m_rows, numCols)
        \o <<"\\end{tabular}", "\n">>
        \o CaptionLine(e) \o LabelLine(e)
        \o EndName("table") \o <<"\n">>

Figure_generate(e) ==
    BeginName("figure") \o PositionOption(e) \o <<"\n", "\\centering", "\n">>
    \o <<"\\includegraphics">>
    \o (IF e.m_width # <<>> THEN <<"[width=">> \o e.m_width \o <<"]">> ELSE <<>>)
    \o <<"{">> \o e.m_imagePath \o <<"}", "\n">>
    \o CaptionLine(e) \o LabelLine(e)
    \o EndName("figure") \o <<"\n">>

Equation_generate(e) ==
    Environment_begin(e) \o e.m_content \o <<"\n">> \o LabelLine(e) \o Environment_end(e)

\* the label of item i (0-based) of a description list, <<>> when it has none;
\* a later pair for the same key overwrites an earlier one
ItemLabel(e, i) ==
    LET ks == {k \in 1..Len(e.m_itemLabels) : e.m_itemLabels[k][1] = i}
    IN  IF ks = {} THEN <<>>
        ELSE e.m_itemLabels[CHOOSE k \in ks : \A j \in ks : j <= k][2]

RECURSIVE List_items(_, _)
List_items(e, i) ==
    IF i < Len(e.m_items)
    THEN <<"\\item ">>
         \o (IF e.m_type = "DESCRIPTION" /\ ItemLabel(e, i) # <<>>
             THEN <<"[">> \o ItemLabel(e, i) \o <<"] ">> ELSE <<>>)
         \o e.m_items[i + 1] \o <<"\n">> \o List_items(e, i + 1)
    ELSE <<>>

List_generate(e) == Environment_begin(e) \o List_items(e, 0) \o Environment_end(e)

RECURSIVE Indent(_)
Indent(n) == IF n <= 0 THEN <<>> ELSE <<"    ">> \o Indent(n - 1)

RECURSIVE Algorithm_lines(_)
Algorithm_lines(lines) ==
    IF lines = <<>> THEN <<>>
    ELSE Indent(Head(lines)[2]) \o Head(lines)[1] \o <<"\n">> \o Algorithm_lines(Tail(lines))

Algorithm_generate(e) ==
    BeginName("algorithm") \o <<"\n">>
    \o CaptionLine(e) \o LabelLine(e)
    \o <<"\\begin{algorithmic}[1]", "\n">>
    \o Algorithm_lines(e.m_lines)
    \o <<"\\end{algorithmic}", "\n">>
    \o EndName("algorithm") \o <<"\n">>

TheoremEnvironment_generate(e) ==
    BeginName(e.m_name)
    \o (IF e.m_title # <<>> THEN <<"[">> \o e.m_title \o <<"]">> ELSE <<>>)
    \o <<"\n">> \o e.m_content \o <<"\n">>
    \o EndName(e.m_name) \o <<"\n">>

\* the virtual call env->generate()
Environment_generate(e) ==
    CASE e.kind = "Table" -> Table_generate(e)
      [] e.kind = "Figure" -> Figure_generate(e)
      [] e.kind = "Equation" -> Equation_generate(e)
      [] e.kind = "List" -> List_generate(e)
      [] e.kind = "Algorithm" -> Algorithm_generate(e)
      [] e.kind = "Theorem" -> TheoremEnvironment_generate(e)

(***************************************************************************)
(* Section (part_001 477-502, latexgen.cpp 135-165).                       *)
(***************************************************************************)
Section(title, level) == [m_title |-> title, m_level |-> level, m_content |-> <<>>]

addContent(s, c) == [s EXCEPT !.m_content = Append(@, c)]

RECURSIVE Section_content(_)
Section_content(cs) ==
    IF cs = <<>> THEN <<>> ELSE Head(cs) \o <<"\n">> \o Section_content(Tail(cs))

Section_command(level) ==
    CASE level = "CHAPTER" -> "\\chapter"
      [] level = "SECTION" -> "\\section"
      [] level = "SUBSECTION" -> "\\subsection"
      [] level = "SUBSUBSECTION" -> "\\subsubsection"
      [] OTHER -> "\\paragraph"

\* Section::generate that writes the content lines before the command
Section_generate_contentFirst(s) ==
    Section_content(s.m_content)
    \o <<Section_command(s.m_level), "{">> \o s.m_title \o <<"}", "\n">>

Section_generate(s) ==
    <<Section_command(s.m_level), "{">> \o s.m_title \o <<"}", "\n">>
    \o Section_content(s.m_content)

RECURSIVE Sections_generate(_)
Sections_generate(ss) ==
    IF ss = <<>> THEN <<>>
    ELSE Section_generate(Head(ss)) \o <<"\n">> \o Sections_generate(Tail(ss))

RECURSIVE Environments_generate(_)
Environments_generate(es) ==
    IF es = <<>> THEN <<>>
    ELSE Environment_generate(Head(es)) \o <<"\n">> \o Environments_generate(Tail(es))

\* for (content : m_rawContent) ss << content << "\n\n"
RECURSIVE RawContent_generate(_)
RawContent_generate(cs) ==
    IF cs = <<>> THEN <<>>
    ELSE Head(cs) \o <<"\n", "\n">> \o RawContent_generate(Tail(cs))

\* for (content : m_customPreamble) ss << content << "\n"
RECURSIVE CustomPreamble_generate(_)
CustomPreamble_generate(cs) ==
    IF cs = <<>> THEN <<>>
    ELSE Head(cs) \o <<"\n">> \o CustomPreamble_generate(Tail(cs))

(***************************************************************************)
(* Bibliography (part_001 717-820, latexgen.cpp 1517-1574).                *)
(***************************************************************************)
\* Bibliography()
Bibliography_default ==
    [m_bibFile |-> <<"references">>, m_style |-> "PLAIN", m_customStyle |-> <<>>,
     m_useExternalFile |-> FALSE, m_entries |-> <<>>]

\* Bibliography(bibFile, style)
Bibliography_external(bibFile, style) ==
    [m_bibFile |-> bibFile, m_style |-> style, m_customStyle |-> <<>>,
     m_useExternalFile |-> TRUE, m_entries |-> <<>>]

\* Bibliography(bibFile, customStyle)
Bibliography_custom(bibFile, customStyle) ==
    [m_bibFile |-> bibFile, m_style |-> "CUSTOM", m_customStyle |-> customStyle,
     m_useExternalFile |-> TRUE, m_entries |-> <<>>]

getStyleName(b) ==
    CASE b.m_style = "PLAIN" -> <<"plain">>
      [] b.m_style = "ALPHA" -> <<"alpha">>
      [] b.m_style = "ABBRV" -> <<"abbrv">>
      [] b.m_style = "ACM" -> <<"acm">>
      [] b.m_style = "IEEE" -> <<"ieeetr">>
      [] b.m_style = "APA" -> <<"apalike">>
      [] b.m_style = "CHICAGO" -> <<"chicago">>
      [] b.m_style = "MLA" -> <<"mla">>
      [] b.m_style = "HARVARD" -> <<"harvard">>
      [] b.m_style = "CUSTOM" -> b.m_customStyle
      [] OTHER -> <<"plain">>

getPreambleConfig(b) == <<>>

getIncludeCommands(b) ==
    <<"\n", "\\bibliographystyle{">> \o getStyleName(b) \o <<"}", "\n">>
    \o <<"\\bibliography{">> \o b.m_bibFile \o <<"}", "\n">>

(***************************************************************************)
(* Localisation tables (latexgen.cpp 101-130, 372-416, 1714-1801).         *)
(***************************************************************************)
Languages ==
    {"ENGLISH", "FRENCH", "GERMAN", "SPANISH", "ITALIAN", "PORTUGUESE", "DUTCH",
     "RUSSIAN", "CHINESE", "JAPANESE", "ARABIC"}

getBabelLanguageName(lang) ==
    CASE lang = "ENGLISH" -> <<"english">>
      [] lang = "FRENCH" -> <<"french">>
      [] lang = "GERMAN" -> <<"german,provide=*">>
      [] lang = "SPANISH" -> <<"spanish,provide=*">>
      [] lang = "ITALIAN" -> <<"italian,provide=*">>
      [] lang = "PORTUGUESE" -> <<"portuguese,provide=*">>
      [] lang = "DUTCH" -> <<"dutch,provide=*">>
      [] lang = "RUSSIAN" -> <<"russian,provide=*">>
      [] lang = "CHINESE" -> <<"chinese,provide=*">>
      [] lang = "JAPANESE" -> <<"japanese,provide=*">>
      [] lang = "ARABIC" -> <<"arabic,provide=*">>
      [] OTHER -> <<"english">>

getLanguageConfiguration(d) ==
    CASE d.m_language = "FRENCH" -> <<"\\frenchbsetup{StandardLayout=true}", "\n">>
      [] d.m_language = "GERMAN" -> <<"\\selectlanguage{ngerman}", "\n">>
      [] d.m_language = "SPANISH" -> <<"\\selectlanguage{spanish}", "\n">>
      [] d.m_language = "ITALIAN" -> <<"\\selectlanguage{italian}", "\n">>
      [] d.m_language = "PORTUGUESE" -> <<"\\selectlanguage{portuguese}", "\n">>
      [] d.m_language = "DUTCH" -> <<"\\selectlanguage{dutch}", "\n">>
      [] d.m_language = "RUSSIAN" -> <<"\\selectlanguage{russian}", "\n">>
      [] d.m_language = "CHINESE" -> <<"\\setCJKmainfont{SimSun}", "\n">>
      [] d.m_language = "JAPANESE" -> <<"\\setCJKmainfont{IPAMincho}", "\n">>
      [] d.m_language = "ARABIC" -> <<"\\setmainlanguage{arabic}", "\n">>
      [] OTHER -> <<>>

\* theorem, lemma, proposition, corollary, definition, example, remark, proof
TheoremNames(language) ==
    CASE language = "FRENCH" ->
           <<"Théorème", "Lemme", "Proposition", "Corollaire", "Définition",
             "Exemple", "Remarque", "Preuve">>
      [] language = "GERMAN" ->
           <<"Satz", "Lemma", "Behauptung", "Korollar", "Definition",
             "Beispiel", "Bemerkung", "Beweis">>
      [] language = "SPANISH" ->
           <<"Teorema", "Lema", "Proposición", "Corolario", "Definición",
             "Ejemplo", "Observación", "Demostración">>
      [] language = "ITALIAN" ->
           <<"Teorema", "Lemma", "Proposizione", "Corollario", "Definizione",
             "Esempio", "Osservazione", "Dimostrazione">>
      [] OTHER ->
           <<"Theorem", "Lemma", "Proposition", "Corollary", "Definition",
             "Example", "Remark", "Proof">>

\* one "\usepackage[options]{package}\n" line
UsePackageLine(package, options) ==
    <<"\\usepackage">>
    \o (IF options # <<>> THEN <<"[">> \o options \o <<"]">> ELSE <<>>)
    \o <<"{", package, "}", "\n">>

getTheoremSetup(language) ==
    LET n == TheoremNames(language)
    IN  UsePackageLine("amsthm", <<>>)
        \o <<"\\theoremstyle{plain}", "\n",
             "\\newtheorem{theorem}{", n[1], "}", "\n",
             "\\newtheorem{lemma}[theorem]{", n[2], "}", "\n",
             "\\newtheorem{proposition}[theorem]{", n[3], "}", "\n",
             "\\newtheorem{corollary}[theorem]{", n[4], "}", "\n",
             "\\theoremstyle{definition}", "\n",
             "\\newtheorem{definition}{", n[5], "}", "\n",
             "\\newtheorem{example}{", n[6], "}", "\n",
             "\\theoremstyle{remark}", "\n",
             "\\newtheorem{remark}{", n[7], "}", "\n",
             "\\renewcommand{\\proofname}{", n[8], "}", "\n">>

getAlgorithmPackages ==
    UsePackageLine("algorithm", <<>>) \o UsePackageLine("algpseudocode", <<>>)

(***************************************************************************)
(* Document (part_001 1238-1455, latexgen.cpp 334-710).  One record holds  *)
(* the members of Document and of its four subclasses; class names the     *)
(* class the object was constructed as, whose virtual generatePreamble and *)
(* generateDocument apply.                                                 *)
(***************************************************************************)
\* the keys std::map<std::string, std::string> m_packages can hold here, in
\* the order the map iterates them (ascending by byte)
PackageOrder ==
    <<"algorithm", "algpseudocode", "amsmath", "amsthm", "arabxetex", "babel",
      "bookmark", "cyrillic", "fancyhdr", "fontenc", "geometry", "graphicx",
      "hyperref", "imakeidx", "inputenc", "listings", "tocloft", "xcolor", "xeCJK">>

\* m[package] = options
MapPut(m, k, v) == [x \in (DOMAIN m) \cup {k} |-> IF x = k THEN v ELSE m[x]]

addPackage(d, package, options) ==
    [d EXCEPT !.m_packages = MapPut(@, package, options)]

RECURSIVE AddPackages(_, _)
AddPackages(d, ps) ==
    IF ps = <<>> THEN d
    ELSE AddPackages(addPackage(d, Head(ps)[1], Head(ps)[2]), Tail(ps))

\* the packages the Document constructor registers for a language
LanguagePackages(language) ==
    (IF language # "ENGLISH" THEN << <<"babel", getBabelLanguageName(language)>> >> ELSE <<>>)
    \o (CASE language = "RUSSIAN" -> << <<"cyrillic", <<>> >> >>
          [] language \in {"CHINESE", "JAPANESE"} -> << <<"xeCJK", <<>> >> >>
          [] language = "ARABIC" -> << <<"arabxetex", <<>> >> >>
          [] OTHER -> <<>>)

\* Document::Document
Document(type, title, author, date, language) ==
    AddPackages(
        [class |-> "Document", m_type |-> type, m_title |-> title, m_author |-> author, m_date |-> date,
         m_language |-> language, m_packages |-> <<>>, m_sections |-> <<>>,
         m_environments |-> <<>>, m_rawContent |-> <<>>, m_customPreamble |-> <<>>,
         m_usedCitations |-> {}, m_bibliography |-> Bibliography_default,
         m_theoremsEnabled |-> FALSE, m_algorithmsEnabled |-> FALSE,
         \* Article, Report, Book
         m_abstract |-> <<>>,
         \* Article: the member m_customPreamble that hides Document's
         Article_m_customPreamble |-> <<>>,
         m_keywords |-> <<>>, m_includeIndex |-> FALSE,
         \* Report, Book (Article::generateDocument reads a member of this name
         \* that Article neither declares nor sets: it stays false there)
         m_includeTableOfContents |-> FALSE, m_includeListOfFigures |-> FALSE,
         m_includeListOfTables |-> FALSE,
         \* Book
         m_parts |-> <<>>, m_partChapters |-> <<>>, m_appendices |-> <<>>,
         m_currentPart |-> -1,
         \* Presentation
         m_institute |-> <<>>, m_subtitle |-> <<>>, m_theme |-> "DEFAULT",
         m_colorTheme |-> "DEFAULT", m_transition |-> "NONE",
         m_showNavigation |-> TRUE, m_slides |-> <<>>, m_structure |-> <<>>],
        << <<"inputenc", <<"utf8">> >>, <<"fontenc", <<"T1">> >> >>
        \o LanguagePackages(language))

Article(title, author, date, language) ==
    AddPackages([Document("ARTICLE", title, author, date, language) EXCEPT !.class = "Article"],
                << <<"geometry", <<"margin=1in">> >>, <<"amsmath", <<>> >>,
                   <<"graphicx", <<>> >> >>)

Report(title, author, date, language) ==
    AddPackages([Document("REPORT", title, author, date, language) EXCEPT !.class = "Report"],
                << <<"geometry", <<"margin=1in">> >>, <<"amsmath", <<>> >>,
                   <<"graphicx", <<>> >>, <<"hyperref", <<>> >>, <<"tocloft", <<>> >> >>)

Book(title, author, date, language) ==
    AddPackages([Document("BOOK", title, author, date, language) EXCEPT !.class = "Book"],
                << <<"geometry", <<"margin=1in">> >>, <<"amsmath", <<>> >>,
                   <<"graphicx", <<>> >>, <<"hyperref", <<>> >>, <<"tocloft", <<>> >>,
                   <<"bookmark", <<>> >> >>)

Presentation(title, author, date, language) ==
    AddPackages([Document("PRESENTATION", title, author, date, language) EXCEPT !.class = "Presentation"],
                << <<"graphicx", <<>> >>, <<"hyperref", <<>> >>,
                   <<"listings", <<>> >>, <<"xcolor", <<>> >> >>)

\* the mutators of Document
\* addSection that puts the Section in front of the earlier ones
addSection_front(d, section) == [d EXCEPT !.m_sections = <<section>> \o @]

addSection(d, section) == [d EXCEPT !.m_sections = Append(@, section)]
addEnvironment(d, e) == [d EXCEPT !.m_environments = Append(@, e)]
setLanguage(d, language) == [d EXCEPT !.m_language = language]
addRawContent(d, c) == [d EXCEPT !.m_rawContent = Append(@, c)]
cite(d, key) == [d EXCEPT !.m_usedCitations = @ \cup {key}]
citePages(d, key, pages) == [d EXCEPT !.m_usedCitations = @ \cup {key}]
\* Article::setBibliography also writes a sample output/<bibFile>.bib when
\* none exists; the in-memory effect is the same assignment
setBibliography(d, b) == [d EXCEPT !.m_bibliography = b]
enableTheorems(d) == [d EXCEPT !.m_theoremsEnabled = TRUE]
enableAlgorithms(d) == [d EXCEPT !.m_algorithmsEnabled = TRUE]
\* Document::addInPreamble, and Article::addInPreamble that hides it
addInPreamble(d, c) ==
    IF d.class = "Article"
    THEN [d EXCEPT !.Article_m_customPreamble = Append(@, c)]
    ELSE [d EXCEPT !.m_customPreamble = Append(@, c)]

\* the convenience adders (latexgen.cpp 586-710): build the environment, set
\* what was passed, register the package or switch the support on, attach
addFigure(d, imagePath, caption, label, width, position) ==
    LET figure == setWidth(setCaption(Figure(imagePath, position), caption), width)
    IN  addEnvironment(addPackage(d, "graphicx", <<>>),
                       IF label # <<>> THEN setLabel(figure, label) ELSE figure)

addTable(d, headers, caption, label, position) ==
    LET table == setCaption(Table(headers, position), caption)
    IN  addEnvironment(d, IF label # <<>> THEN setLabel(table, label) ELSE table)

addList(d, type) == addEnvironment(d, List(type))

\* a call made through the handle an adder returned: the handle and the
\* i-th pointer of m_environments (1-based here) share one object, so the
\* object e the call leaves behind is the one the document holds
viaHandle_copy(d, i, e) == d

viaHandle(d, i, e) == [d EXCEPT !.m_environments[i] = e]

\* addEquation that does not register amsmath
addEquation_noPackage(d, c, label, numbered) ==
    LET equation == setContent(Equation(numbered), c)
    IN  addEnvironment(d, IF label # <<>> THEN setLabel(equation, label) ELSE equation)

addEquation(d, c, label, numbered) ==
    LET equation == setContent(Equation(numbered), c)
    IN  addEnvironment(addPackage(d, "amsmath", <<>>),
                       IF label # <<>> THEN setLabel(equation, label) ELSE equation)

\* addInlineEquation returns "$" + content + "$"; its effect on the document
\* is the registration of amsmath
addInlineEquation(d, c) == addPackage(d, "amsmath", <<>>)

addAlgorithm(d, caption, label) ==
    LET algorithm == Algorithm(caption)
    IN  addEnvironment(enableAlgorithms(d),
                       IF label # <<>> THEN setLabel(algorithm, label) ELSE algorithm)

addTheorem(d, type, thContent, title) ==
    addEnvironment(enableTheorems(d), TheoremEnvironment(type, thContent, title))

getDocumentClass(d) ==
    CASE d.m_type = "ARTICLE" -> "article"
      [] d.m_type = "REPORT" -> "report"
      [] d.m_type = "BOOK" -> "book"
      [] d.m_type = "PRESENTATION" -> "beamer"
      [] OTHER -> "article"

\* the loop over m_packages, from entry k of the iteration order on
RECURSIVE Packages_generate(_, _)
Packages_generate(m, k) ==
    IF k > Len(PackageOrder) THEN <<>>
    ELSE (IF PackageOrder[k] \in DOMAIN m
          THEN UsePackageLine(PackageOrder[k], m[PackageOrder[k]]) ELSE <<>>)
         \o Packages_generate(m, k + 1)

TitleLine(d) ==
    IF d.m_title # <<>> THEN <<"\\title{">> \o d.m_title \o <<"}", "\n">> ELSE <<>>
AuthorLine(d) ==
    IF d.m_author # <<>> THEN <<"\\author{">> \o d.m_author \o <<"}", "\n">> ELSE <<>>
DateLine(d) ==
    IF d.m_date # <<>> THEN <<"\\date{">> \o d.m_date \o <<"}", "\n">> ELSE <<>>

Document_generatePreamble(d) ==
    <<"\\documentclass{", getDocumentClass(d), "}", "\n", "\n">>
    \o Packages_generate(d.m_packages, 1) \o <<"\n">>
    \o getLanguageConfiguration(d)
    \o TitleLine(d) \o AuthorLine(d) \o DateLine(d)
    \o (IF d.m_theoremsEnabled THEN getTheoremSetup(d.m_language) ELSE <<>>)
    \o (IF d.m_algorithmsEnabled THEN getAlgorithmPackages ELSE <<>>)
    \o (IF d.m_usedCitations # {} THEN getPreambleConfig(d.m_bibliography) ELSE <<>>)
    \o CustomPreamble_generate(d.m_customPreamble)
    \o <<"\n">>

BeginDocument == <<"\\begin{document}", "\n", "\n">>
EndDocument == <<"\\end{document}", "\n">>
MakeTitle == <<"\\maketitle", "\n", "\n">>

\* the bibliography block of a body
\* the bibliography block written as soon as a Bibliography was attached
BibliographyBlock_whenAttached(d) ==
    IF d.m_usedCitations # {} \/ d.m_bibliography # Bibliography_default
    THEN getIncludeCommands(d.m_bibliography) \o <<"\n">>
    ELSE <<>>

BibliographyBlock(d) ==
    IF d.m_usedCitations # {} THEN getIncludeCommands(d.m_bibliography) \o <<"\n">>
    ELSE <<>>

AbstractBlock(d) ==
    IF d.m_abstract # <<>>
    THEN <<"\\begin{abstract}", "\n">> \o d.m_abstract \o <<"\n", "\\end{abstract}", "\n", "\n">>
    ELSE <<>>

Document_generateDocument(d) ==
    BeginDocument
    \o (IF d.m_title # <<>> THEN MakeTitle ELSE <<>>)
    \o RawContent_generate(d.m_rawContent)
    \o Sections_generate(d.m_sections)
    \o Environments_generate(d.m_environments)
    \o BibliographyBlock(d)
    \o EndDocument

(***************************************************************************)
(* Article (part_001 1460-1522, latexgen.cpp 715-954).                     *)
(***************************************************************************)
setAbstract(d, abstract) == [d EXCEPT !.m_abstract = abstract]
addKeyword(d, keyword) == [d EXCEPT !.m_keywords = Append(@, keyword)]

\* Article::includeIndex, Book::includeIndex
includeIndex(d, include) ==
    IF include THEN addPackage([d EXCEPT !.m_includeIndex = TRUE], "imakeidx", <<>>)
    ELSE [d EXCEPT !.m_includeIndex = FALSE]

\* (the grave accent character of the literate table is spelled <grave> here)
LstsetArticle ==
    <<"\\lstset{", "\n",
      "  basicstyle=\\small\\ttfamily,", "\n",
      "  keywordstyle=\\color{blue}\\bfseries,", "\n",
      "  commentstyle=\\color{green!60!black}\\itshape,", "\n",
      "  stringstyle=\\color{purple},", "\n",
      "  frame=single,", "\n",
      "  breaklines=true,", "\n",
      "  showstringspaces=false,", "\n",
      "  inputencoding=utf8,", "\n",
      "  extendedchars=true,", "\n",
      "  literate={é}{{\\'e}}1 {è}{{\\<grave>e}}1 {ê}{{\\^e}}1 {ë}{{\\\"e}}1", "\n",
      "           {à}{{\\<grave>a}}1 {â}{{\\^a}}1 {ä}{{\\\"a}}1", "\n",
      "           {î}{{\\^i}}1 {ï}{{\\\"i}}1", "\n",
      "           {ô}{{\\^o}}1 {ö}{{\\\"o}}1", "\n",
      "           {ù}{{\\<grave>u}}1 {û}{{\\^u}}1 {ü}{{\\\"u}}1", "\n",
      "           {ç}{{\\c c}}1", "\n",
      "}", "\n", "\n">>

\* the Cyrillic, CJK and Arabic literals of the source are written here in
\* Latin transliteration; they are opaque tokens of the output
keywordsTitle(language) ==
    CASE language = "FRENCH" -> "Mots-clés:"
      [] language = "GERMAN" -> "Schlüsselwörter:"
      [] language = "SPANISH" -> "Palabras clave:"
      [] language = "ITALIAN" -> "Parole chiave:"
      [] language = "PORTUGUESE" -> "Palavras-chave:"
      [] language = "DUTCH" -> "Trefwoorden:"
      [] language = "RUSSIAN" -> "Klyuchevye slova:"
      [] language = "CHINESE" -> "guanjianci:"
      [] language = "JAPANESE" -> "kiiwaado:"
      [] language = "ARABIC" -> "alkalimat almiftahia:"
      [] OTHER -> "Keywords:"

indexTitle(language) ==
    CASE language = "FRENCH" -> "Index alphabétique"
      [] language = "GERMAN" -> "Alphabetischer Index"
      [] language = "SPANISH" -> "Índice alfabético"
      [] language = "ITALIAN" -> "Indice alfabetico"
      [] language = "PORTUGUESE" -> "Índice alfabético"
      [] language = "DUTCH" -> "Alfabetische index"
      [] language = "RUSSIAN" -> "Alfavitnyj ukazatel"
      [] language = "CHINESE" -> "suoyin"
      [] language = "JAPANESE" -> "sakuin"
      [] language = "ARABIC" -> "fihris"
      [] OTHER -> "Alphabetical Index"

\* the \makeindex block of Article::generatePreamble and Book::generatePreamble
MakeIndexBlock(d) ==
    IF d.m_includeIndex
    THEN <<"\\makeindex[columns=2, title=", indexTitle(d.m_language), ", intoc]", "\n", "\n">>
    ELSE <<>>

KeywordsCommand(d) ==
    IF d.m_keywords # <<>>
    THEN <<"\\providecommand{\\keywords}[1]{\\par\\noindent\\textbf{",
           keywordsTitle(d.m_language), "} #1}", "\n", "\n">>
    ELSE <<>>

Article_generatePreamble(d) ==
    Document_generatePreamble(d)
    \o LstsetArticle
    \o CustomPreamble_generate(d.Article_m_customPreamble)
    \o KeywordsCommand(d)
    \o MakeIndexBlock(d)

\* the loop over m_keywords, from the 0-based index i on
RECURSIVE Keywords_list(_, _)
Keywords_list(ks, i) ==
    IF i < Len(ks)
    THEN ks[i + 1] \o (IF i < Len(ks) - 1 THEN <<", ">> ELSE <<>>) \o Keywords_list(ks, i + 1)
    ELSE <<>>

KeywordsLine(d) ==
    IF d.m_keywords # <<>>
    THEN <<"\\keywords{">> \o Keywords_list(d.m_keywords, 0) \o <<"}", "\n", "\n">>
    ELSE <<>>

Article_generateDocument(d) ==
    BeginDocument
    \o (IF d.m_title # <<>> THEN MakeTitle \o KeywordsLine(d) ELSE <<>>)
    \o AbstractBlock(d)
    \o (IF d.m_includeTableOfContents
        THEN <<"\\tableofcontents", "\n", "\\clearpage", "\n", "\n">> ELSE <<>>)
    \o RawContent_generate(d.m_rawContent)
    \o Sections_generate(d.m_sections)
    \o Environments_generate(d.m_environments)
    \o BibliographyBlock(d)
    \o EndDocument

(***************************************************************************)
(* Report (part_001 1527-1570, latexgen.cpp 959-1029).                     *)
(***************************************************************************)
includeTableOfContents(d, include) == [d EXCEPT !.m_includeTableOfContents = include]
includeListOfFigures(d, include) == [d EXCEPT !.m_includeListOfFigures = include]
includeListOfTables(d, include) == [d EXCEPT !.m_includeListOfTables = include]

Report_generatePreamble(d) == Document_generatePreamble(d)

Report_generateDocument(d) ==
    BeginDocument
    \o (IF d.m_title # <<>> THEN MakeTitle ELSE <<>>)
    \o AbstractBlock(d)
    \o (IF d.m_includeTableOfContents
        THEN <<"\\tableofcontents", "\n", "\\clearpage", "\n", "\n">> ELSE <<>>)
    \o (IF d.m_includeListOfFigures
        THEN <<"\\listoffigures", "\n", "\\clearpage", "\n", "\n">> ELSE <<>>)
    \o (IF d.m_includeListOfTables
        THEN <<"\\listoftables", "\n", "\\clearpage", "\n", "\n">> ELSE <<>>)
    \o RawContent_generate(d.m_rawContent)
    \o Sections_generate(d.m_sections)
    \o Environments_generate(d.m_environments)
    \o EndDocument

(***************************************************************************)
(* Book (part_001 1575-1652, latexgen.cpp 1034-1183).                      *)
(***************************************************************************)
\* m_currentPart is an int, m_parts.size() a size_t: the guard holds for
\* 0 <= m_currentPart < size, and fails for -1
addPart(d, title) ==
    [d EXCEPT !.m_parts = Append(@, title), !.m_currentPart = Len(d.m_parts)]

\* addChapterToPart that files the chapter under the first part
addChapterToPart_firstPart(d, chapter) ==
    IF d.m_currentPart >= 0 /\ d.m_currentPart < Len(d.m_parts)
    THEN [d EXCEPT !.m_partChapters =
             MapPut(@, 0, Append(IF 0 \in DOMAIN @ THEN @[0] ELSE <<>>, chapter))]
    ELSE d

\* addChapterToPart that keeps a chapter handed over before any part for the
\* first part to come
addChapterToPart_pending(d, chapter) ==
    LET k == IF d.m_currentPart >= 0 THEN d.m_currentPart ELSE 0
    IN  [d EXCEPT !.m_partChapters =
            MapPut(@, k, Append(IF k \in DOMAIN @ THEN @[k] ELSE <<>>, chapter))]

addChapterToPart(d, chapter) ==
    IF d.m_currentPart >= 0 /\ d.m_currentPart < Len(d.m_parts)
    THEN [d EXCEPT !.m_partChapters =
             MapPut(@, d.m_currentPart,
                    Append(IF d.m_currentPart \in DOMAIN @ THEN @[d.m_currentPart] ELSE <<>>,
                           chapter))]
    ELSE d

addAppendix(d, appendix) == [d EXCEPT !.m_appendices = Append(@, appendix)]

Book_generatePreamble(d) ==
    Document_generatePreamble(d)
    \o MakeIndexBlock(d)
    \o <<"\\providecommand{\\abstractname}{Abstract}", "\n",
         "\\ifdefined\\abstract\\else", "\n",
         "  \\newenvironment{abstract}{\\chapter*{\\abstractname}}{}", "\n",
         "\\fi", "\n">>

\* one iteration of the loop over m_parts, i the 0-based index
Book_part(d, i) ==
    <<"\\part{">> \o d.m_parts[i + 1] \o <<"}", "\n", "\n">>
    \o (IF i \in DOMAIN d.m_partChapters
        THEN Sections_generate(d.m_partChapters[i]) ELSE <<>>)

RECURSIVE Book_parts(_, _)
Book_parts(d, i) ==
    IF i < Len(d.m_parts) THEN Book_part(d, i) \o Book_parts(d, i + 1) ELSE <<>>

Book_generateDocument(d) ==
    BeginDocument
    \o MakeTitle
    \o AbstractBlock(d)
    \o (IF d.m_includeTableOfContents THEN <<"\\tableofcontents", "\n", "\n">> ELSE <<>>)
    \o (IF d.m_includeListOfFigures THEN <<"\\listoffigures", "\n", "\n">> ELSE <<>>)
    \o (IF d.m_includeListOfTables THEN <<"\\listoftables", "\n", "\n">> ELSE <<>>)
    \o Book_parts(d, 0)
    \o Sections_generate(d.m_sections)
    \o Environments_generate(d.m_environments)
    \o RawContent_generate(d.m_rawContent)
    \o (IF d.m_appendices # <<>>
        THEN <<"\\appendix", "\n", "\n">> \o Sections_generate(d.m_appendices) ELSE <<>>)
    \o (IF d.m_includeIndex THEN <<"\\printindex", "\n", "\n">> ELSE <<>>)
    \o EndDocument

(***************************************************************************)
(* Presentation (part_001 1657-1815, latexgen.cpp 1188-1512).              *)
(***************************************************************************)
\* addSlide(title, vector<string>); addSlide(title, string) is the vector {content}
addSlide(d, title, lines) == [d EXCEPT !.m_slides = Append(@, <<title, lines>>)]

\* Presentation::addSection / addSubsection / addSubsubsection
addStructure(d, level, title, createFrame) ==
    [d EXCEPT !.m_structure = Append(@, <<level, title, createFrame>>)]

getThemeName(d) ==
    CASE d.m_theme = "BERKELEY" -> "Berkeley"
      [] d.m_theme = "MADRID" -> "Madrid"
      [] d.m_theme = "ANTIBES" -> "Antibes"
      [] d.m_theme = "COPENHAGEN" -> "Copenhagen"
      [] d.m_theme = "BERLIN" -> "Berlin"
      [] d.m_theme = "MANHATTAN" -> "Manhattan"
      [] d.m_theme = "WARSAW" -> "Warsaw"
      [] d.m_theme = "SINGAPORE" -> "Singapore"
      [] OTHER -> "default"

getColorThemeName(d) ==
    CASE d.m_colorTheme = "BEAVER" -> "beaver"
      [] d.m_colorTheme = "CRANE" -> "crane"
      [] d.m_colorTheme = "DOLPHIN" -> "dolphin"
      [] d.m_colorTheme = "DOVE" -> "dove"
      [] d.m_colorTheme = "FLY" -> "fly"
      [] d.m_colorTheme = "SEAGULL" -> "seagull"
      [] d.m_colorTheme = "WOLVERINE" -> "wolverine"
      [] OTHER -> "default"

getTransitionName(d) ==
    CASE d.m_transition = "FADE" -> "transparent"
      [] d.m_transition = "PUSH" -> "push"
      [] d.m_transition = "COVER" -> "dynamic"
      [] d.m_transition = "UNCOVER" -> "invisible"
      [] d.m_transition = "SPLIT" -> "split"
      [] d.m_transition = "BLINDS" -> "dynamic"
      [] d.m_transition = "WIPE" -> "dynamic"
      [] OTHER -> "invisible"

getLevelCommand(level) ==
    CASE level = "SECTION" -> "\\section"
      [] level = "SUBSECTION" -> "\\subsection"
      [] level = "SUBSUBSECTION" -> "\\subsubsection"
      [] OTHER -> "\\section"

LstsetPresentation ==
    <<"\\lstset{", "\n",
      "  basicstyle=\\small\\ttfamily,", "\n",
      "  breaklines=true,", "\n",
      "  inputencoding=utf8,", "\n",
      "  extendedchars=true,", "\n",
      "  literate={é}{{\\'e}}1 {è}{{\\<grave>e}}1 {ê}{{\\^e}}1 {ë}{{\\\"e}}1", "\n",
      "           {à}{{\\<grave>a}}1 {â}{{\\^a}}1 {ä}{{\\\"a}}1", "\n",
      "           {î}{{\\^i}}1 {ï}{{\\\"i}}1", "\n",
      "           {ô}{{\\^o}}1 {ö}{{\\\"o}}1", "\n",
      "           {ù}{{\\<grave>u}}1 {û}{{\\^u}}1 {ü}{{\\\"u}}1", "\n",
      "           {ç}{{\\c c}}1", "\n",
      "}", "\n", "\n">>

Presentation_generatePreamble(d) ==
    <<"\\documentclass{", "beamer", "}", "\n", "\n">>
    \o Packages_generate(d.m_packages, 1) \o <<"\n">>
    \o LstsetPresentation
    \o getLanguageConfiguration(d)
    \o (IF d.m_theme # "DEFAULT" THEN <<"\\usetheme{", getThemeName(d), "}", "\n">> ELSE <<>>)
    \o (IF d.m_colorTheme # "DEFAULT"
        THEN <<"\\usecolortheme{", getColorThemeName(d), "}", "\n">> ELSE <<>>)
    \o (IF d.m_transition # "NONE"
        THEN <<"\\setbeamercovered{", getTransitionName(d), "}", "\n">> ELSE <<>>)
    \o (IF ~d.m_showNavigation
        THEN <<"\\setbeamertemplate{navigation symbols}{}", "\n">> ELSE <<>>)
    \o TitleLine(d)
    \o (IF d.m_subtitle # <<>> THEN <<"\\subtitle{">> \o d.m_subtitle \o <<"}", "\n">> ELSE <<>>)
    \o AuthorLine(d)
    \o (IF d.m_institute # <<>> THEN <<"\\institute{">> \o d.m_institute \o <<"}", "\n">> ELSE <<>>)
    \o DateLine(d)
    \o <<"\n">>

\* the literal "\\begin{lstlisting}" both fragile tests search for
lstlistingMarker == BeginName("lstlisting")

Pres_titleFrame(d) ==
    IF d.m_title # <<>>
    THEN <<"\\begin{frame}", "\n", "\\titlepage", "\n", "\\end{frame}", "\n", "\n">>
    ELSE <<>>

Pres_planFrame ==
    <<"\\begin{frame}", "{", "Plan", "}", "\n", "\\tableofcontents", "\n",
      "\\end{frame}", "\n", "\n">>

\* one iteration of the loop over m_structure
Pres_structureItem(item) ==
    LET level == item[1]
        title == item[2]
        createFrame == item[3]
    IN  <<getLevelCommand(level), "{">> \o title \o <<"}", "\n", "\n">>
        \o (IF createFrame
            THEN <<"\\begin{frame}", "\n">>
                 \o (CASE level = "SECTION" -> <<"\\sectionpage">>
                       [] level = "SUBSECTION" -> <<"\\subsectionpage">>
                       [] OTHER -> <<"\\begin{center}\\Large ">> \o title \o <<"\\end{center}">>)
                 \o <<"\n", "\\end{frame}", "\n", "\n">>
            ELSE <<>>)

RECURSIVE Pres_structure(_)
Pres_structure(items) ==
    IF items = <<>> THEN <<>>
    ELSE Pres_structureItem(Head(items)) \o Pres_structure(Tail(items))

\* needsFragile decided by the first content line alone
needsFragile_firstLine(lines) == lines # <<>> /\ Contains(lines[1], lstlistingMarker)

\* the needsFragile loop of one slide
needsFragile(lines) == \E i \in 1..Len(lines) : Contains(lines[i], lstlistingMarker)

RECURSIVE Pres_slideLines(_)
Pres_slideLines(lines) ==
    IF lines = <<>> THEN <<>>
    ELSE Head(lines) \o <<"\n">> \o Pres_slideLines(Tail(lines))

\* one iteration of the loop over m_slides
Pres_slide(slide) ==
    (IF needsFragile(slide[2])
     THEN <<"\\begin{frame}", "[fragile]", "{">> \o slide[1] \o <<"}", "\n">>
     ELSE <<"\\begin{frame}", "{">> \o slide[1] \o <<"}", "\n">>)
    \o Pres_slideLines(slide[2])
    \o <<"\\end{frame}", "\n", "\n">>

RECURSIVE Pres_slides(_)
Pres_slides(slides) ==
    IF slides = <<>> THEN <<>>
    ELSE Pres_slide(Head(slides)) \o Pres_slides(Tail(slides))

\* one iteration of the loop over m_sections: the title is cut out of the
\* rendered section between its first "{" and its first "}"; the frame body is
\* what follows that "}" (substr(endPos + 1), and npos + 1 wraps to 0)
Pres_section(section) ==
    LET sectionContent == Section_generate(section)
        startPos == Find(sectionContent, <<"{">>, 0)
        endPos == Find(sectionContent, <<"}">>, 0)
        title == IF startPos # npos /\ endPos # npos
                 THEN IF endPos - startPos - 1 >= 0
                      THEN Substr(sectionContent, startPos + 1, endPos - startPos - 1)
                      ELSE Substr(sectionContent, startPos + 1, Len(sectionContent))
                 ELSE <<"Section">>
        body == Substr(sectionContent, IF endPos = npos THEN 0 ELSE endPos + 1,
                       Len(sectionContent))
    IN  <<"\\section", "{">> \o title \o <<"}", "\n", "\n">>
        \o <<"\\begin{frame}", "{">> \o title \o <<"}", "\n">>
        \o sanitizeMathContent(body)
        \o <<"\\end{frame}", "\n", "\n">>

RECURSIVE Pres_sections(_)
Pres_sections(sections) ==
    IF sections = <<>> THEN <<>>
    ELSE Pres_section(Head(sections)) \o Pres_sections(Tail(sections))

\* one iteration of the loop over m_environments
Pres_environment(e) ==
    LET envContent == Environment_generate(e)
    IN  (IF Contains(envContent, lstlistingMarker)
         THEN <<"\\begin{frame}", "[fragile]", "\n">>
         ELSE <<"\\begin{frame}", "\n">>)
        \o envContent \o <<"\n">>
        \o <<"\\end{frame}", "\n", "\n">>

RECURSIVE Pres_environments(_)
Pres_environments(es) ==
    IF es = <<>> THEN <<>>
    ELSE Pres_environment(Head(es)) \o Pres_environments(Tail(es))

\* Presentation::generateDocument with the Sections pass before the slides pass
Presentation_generateDocument_sectionsFirst(d) ==
    BeginDocument
    \o Pres_titleFrame(d)
    \o Pres_planFrame
    \o RawContent_generate(d.m_rawContent)
    \o Pres_structure(d.m_structure)
    \o Pres_sections(d.m_sections)
    \o Pres_slides(d.m_slides)
    \o Pres_environments(d.m_environments)
    \o EndDocument

Presentation_generateDocument(d) ==
    BeginDocument
    \o Pres_titleFrame(d)
    \o Pres_planFrame
    \o RawContent_generate(d.m_rawContent)
    \o Pres_structure(d.m_structure)
    \o Pres_slides(d.m_slides)
    \o Pres_sections(d.m_sections)
    \o Pres_environments(d.m_environments)
    \o EndDocument

(***************************************************************************)
(* The virtual calls and Document::generate (latexgen.cpp 581-584).        *)
(***************************************************************************)
generatePreamble(d) ==
    CASE d.class = "Article" -> Article_generatePreamble(d)
      [] d.class = "Report" -> Report_generatePreamble(d)
      [] d.class = "Book" -> Book_generatePreamble(d)
      [] d.class = "Presentation" -> Presentation_generatePreamble(d)
      [] OTHER -> Document_generatePreamble(d)

generateDocument(d) ==
    CASE d.class = "Article" -> Article_generateDocument(d)
      [] d.class = "Report" -> Report_generateDocument(d)
      [] d.class = "Book" -> Book_generateDocument(d)
      [] d.class = "Presentation" -> Presentation_generateDocument(d)
      [] OTHER -> Document_generateDocument(d)

generate(d) == generatePreamble(d) \o generateDocument(d)

(***************************************************************************)
(* Bibliography, its mutators and its file (part_001 666-784,              *)
(* latexgen.cpp 1576-1657).                                                *)
(***************************************************************************)
setBibFile(b, bibFile, useExternalFile) ==
    [b EXCEPT !.m_bibFile = bibFile, !.m_useExternalFile = useExternalFile]

addEntry(b, entry) ==
    [b EXCEPT !.m_entries = Append(@, entry), !.m_useExternalFile = FALSE]

\* setStyle that keeps the custom name when a named style is chosen
setStyle_keepCustom(b, style) ==
    [b EXCEPT !.m_style = style]

setStyle(b, style) ==
    [b EXCEPT !.m_style = style,
              !.m_customStyle = IF style # "CUSTOM" THEN <<>> ELSE @]

setCustomStyle(b, customStyle) ==
    [b EXCEPT !.m_style = "CUSTOM", !.m_customStyle = customStyle]

\* BibEntry (part_001 666-712, latexgen.cpp 1612-1657); m_fields is a
\* std::map, walked in the order of its keys
BibEntry(key, type) == [m_key |-> key, m_type |-> type, m_fields |-> <<>>]

addField(e, field, value) == [e EXCEPT !.m_fields = MapPut(@, field, value)]

FieldOrder == <<"author", "title", "year">>

getTypeString(type) ==
    CASE type = "ARTICLE" -> "article"
      [] type = "BOOK" -> "book"
      [] type = "INPROCEEDINGS" -> "inproceedings"
      [] type = "TECHREPORT" -> "techreport"
      [] type = "PHDTHESIS" -> "phdthesis"
      [] type = "MASTERSTHESIS" -> "mastersthesis"
      [] OTHER -> "misc"

\* the loop over m_fields, from the k-th name of FieldOrder on
RECURSIVE BibEntry_fields(_, _)
BibEntry_fields(e, k) ==
    IF k > Len(FieldOrder) THEN <<>>
    ELSE (IF FieldOrder[k] \in DOMAIN e.m_fields
          THEN <<"  ", FieldOrder[k], " = {">> \o e.m_fields[FieldOrder[k]] \o <<"}">>
               \o (IF \E j \in (k + 1)..Len(FieldOrder) : FieldOrder[j] \in DOMAIN e.m_fields
                   THEN <<",">> ELSE <<>>)
               \o <<"\n">>
          ELSE <<>>)
         \o BibEntry_fields(e, k + 1)

BibEntry_generate(e) ==
    <<"@", getTypeString(e.m_type), "{">> \o e.m_key \o <<",", "\n">>
    \o BibEntry_fields(e, 1)
    \o <<"}", "\n">>

\* the loop of generateBibFile that writes the entries
RECURSIVE BibFile_entries(_)
BibFile_entries(es) ==
    IF es = <<>> THEN <<>>
    ELSE BibEntry_generate(Head(es)) \o <<"\n">> \o BibFile_entries(Tail(es))

\* Bibliography::generateBibFile(outputDir) on the file system fs, a record
\* of the directories (dirs) and of the files with their text (data);
\* canOpen tells whether the std::ofstream opens.  Gives the value returned
\* (ret) and the file system left behind (fs).
generateBibFile(b, outputDir, fs, canOpen) ==
    IF b.m_entries = <<>> THEN [ret |-> FALSE, fs |-> fs]
    ELSE LET name == b.m_bibFile \o <<".bib">>
             filePath == IF outputDir # <<>> THEN outputDir \o <<"/">> \o name ELSE name
             made == IF outputDir # <<>> THEN [fs EXCEPT !.dirs = @ \cup {outputDir}] ELSE fs
         IN  IF ~canOpen THEN [ret |-> FALSE, fs |-> made]
             ELSE [ret |-> TRUE,
                   fs |-> [made EXCEPT !.data = MapPut(@, filePath, BibFile_entries(b.m_entries))]]

(***************************************************************************)
(* Specifications.  Each one drives one part of the library; the variables *)
(* of the other parts keep their idle value.                               *)
(***************************************************************************)
NoObject == "none"

SanIdle ==
    /\ content = <<>> /\ result = <<>> /\ pos = 0 /\ inMathMode = FALSE
    /\ startMathPos = 0 /\ sanPc = "idle"
EnvIdle == env = NoObject
DocIdle == doc = NoObject /\ out = <<>> /\ calls = <<>>
NoFiles == [dirs |-> {}, data |-> <<>>]
BibIdle == bib = NoObject /\ files = NoFiles /\ ret = NoObject

(***************************************************************************)
(* SpecSan: sanitizeMathContent run on a bounded set of inputs, one loop   *)
(* iteration per step.                                                     *)
(***************************************************************************)
MaxChunks == 4

\* the pieces the inputs are built from
SanChunks ==
    {chBeginEquation, chEndEquation, chDollar, chDollarDollar, chProductivite,
     <<"é">>, <<"x">>}

SanInputs ==
    {Flatten(cs) : cs \in UNION {[1..n -> SanChunks] : n \in 0..MaxChunks}}

SanState ==
    [result |-> result, pos |-> pos, inMathMode |-> inMathMode,
     startMathPos |-> startMathPos]

\* the call sanitizeMathContent(content): the locals as declared
SanInit ==
    /\ content \in SanInputs
    /\ result = content
    /\ pos = 0
    /\ inMathMode = FALSE
    /\ startMathPos = 0
    /\ sanPc = "loop"
    /\ EnvIdle /\ DocIdle /\ BibIdle

\* while (pos < result.length()) { ... }
SanLoop ==
    /\ sanPc = "loop"
    /\ pos < Len(result)
    /\ result' = SanStep(SanState).result
    /\ pos' = SanStep(SanState).pos
    /\ inMathMode' = SanStep(SanState).inMathMode
    /\ startMathPos' = SanStep(SanState).startMathPos
    /\ UNCHANGED <<content, sanPc, env, doc, out, calls, bib, files, ret>>

\* return result
SanReturn ==
    /\ sanPc = "loop"
    /\ ~(pos < Len(result))
    /\ sanPc' = "done"
    /\ UNCHANGED <<content, result, pos, inMathMode, startMathPos, env, doc, out, calls, bib, files, ret>>

SanNext == SanLoop \/ SanReturn

SpecSan == SanInit /\ [][SanNext]_vars

\* the call runs to its end: the loop is code of one thread, which takes its
\* next step whenever it has one
SpecSanFair == SpecSan /\ WF_vars(SanNext)

(***************************************************************************)
(* Properties of sanitizeMathContent, checked under SpecSan.                *)
(***************************************************************************)
\* some \begin{equation} ... \end{equation} block of s (the \end{equation}
\* being the first one after the \begin{equation}) holds the text w
HasEquationBlockWith(s, w) ==
    \E i \in 0..Len(s) :
        /\ Substr(s, i, Len(chBeginEquation)) = chBeginEquation
        /\ LET from == i + Len(chBeginEquation)
               j == Find(s, chEndEquation, from)
           IN  /\ j # npos
               /\ Contains(Substr(s, from, j - from), w)

\* C7: when the input holds an equation block whose content includes the
\* word Productivité, the returned text holds an equation block that
\* includes the mapped form \text{Productivité}.
C7_WrappedInsideBlock ==
    (sanPc = "done" /\ HasEquationBlockWith(content, chProductivite))
        => HasEquationBlockWith(result, TextWrap(chProductivite))

\* the length of the marker that starts at position p of s, 0 when none does
\* ("$" where "$$" starts: the markers are tried in the order of the list)
MarkerLenAt(s, p) ==
    LET ls == {Len(mathEnvs[k]) : k \in {n \in 1..Len(mathEnvs) :
                   Substr(s, p, Len(mathEnvs[n])) = mathEnvs[n]}}
    IN  IF ls = {} THEN 0 ELSE CHOOSE l \in ls : \A m \in ls : l <= m

HasMarker(s) == \E p \in 0..Len(s) : MarkerLenAt(s, p) > 0

\* s without the text of its math spans: a marker outside a span opens one,
\* the next marker closes it, and what lies strictly between the two is
\* dropped; the markers stay, and so does the text after an opening marker
\* that no marker closes
RECURSIVE OutsideFrom(_, _, _, _)
OutsideFrom(s, p, inside, start) ==
    IF p >= Len(s)
    THEN (IF inside THEN Substr(s, start, Len(s) - start) ELSE <<>>)
    ELSE LET l == MarkerLenAt(s, p)
         IN  IF l > 0
             THEN Substr(s, p, l) \o OutsideFrom(s, p + l, ~inside, p + l)
             ELSE (IF inside THEN <<>> ELSE <<s[p + 1]>>)
                  \o OutsideFrom(s, p + 1, inside, start)

Outside(s) == OutsideFrom(s, 0, FALSE, 0)

\* C8: the returned text equals the input everywhere outside the math spans
\* (markers included, and the tail after an unclosed opening marker), and
\* equals the input altogether when the input holds no marker.
C8_OutsideUnchanged ==
    sanPc = "done" =>
        /\ Outside(result) = Outside(content)
        /\ (~HasMarker(content) => result = content)

\* C8 witness: a call that rewrote a span and returned the accented letter
\* that precedes the span as it was
C8_Witness ==
    /\ sanPc = "done"
    /\ result # content
    /\ Len(content) > 0
    /\ content[1] = "é"
    /\ result[1] = "é"

\* C21: a display span, $$ then text without markers then $$, is rewritten
\* as one math span: the text between the two $$ comes back as the text
\* between two single $ does
C21_DisplaySpanRewritten ==
    sanPc = "done" =>
        \A n \in 1..Len(content) :
            LET w == Substr(content, 2, n)
            IN  (content = chDollarDollar \o w \o chDollarDollar /\ ~HasMarker(w)) =>
                    result = chDollar
                             \o sanitizeMathContent(chDollar \o w \o chDollar)
                             \o chDollar

\* C29: a span is closed by the closer of the marker that opened it only.
\* So in \begin{equation} w $, with w free of markers, the $ does not end
\* the span, which stays open to the end; and in \end{equation} w $ the
\* closer met outside any span opens none, so that w lies outside and the $
\* opens a span that stays open: in both texts no span is closed and the
\* text comes back as it was
C29_OnlyMatchingCloser ==
    sanPc = "done" =>
        \A m \in {chBeginEquation, chEndEquation} :
            \A n \in 1..Len(content) :
                LET w == Substr(content, Len(m), n)
                IN  (content = m \o w \o chDollar /\ ~HasMarker(w)) => result = content

\* C30: sanitizeMathContent terminates: every iteration of the scan loop
\* moves the scan position forward, also when it has rewritten a span into
\* a longer text, the position never passes the end of the text, so that
\* the iterations are at most as many as the final text has characters, and
\* the call returns
C30_Terminates ==
    /\ [][(sanPc = "loop" /\ sanPc' = "loop") =>
              /\ pos' > pos
              /\ pos' <= Len(result')
              /\ Len(result') >= Len(result)]_vars
    /\ <>(sanPc = "done")

\* a call that has returned a text longer than its input, scanned to its end
C30_Witness ==
    /\ sanPc = "done"
    /\ Len(result) > Len(content)
    /\ pos = Len(result)

(***************************************************************************)
(* SpecEnv: one Environment object, constructed and then filled through    *)
(* the setters and adders of its class.                                    *)
(***************************************************************************)
MaxCols == 2        \* header columns of a Table
MaxRowLen == 3      \* values in a row handed to addRow
MaxRows == 1        \* rows added to a Table
MaxItems == 2       \* items added to a List, lines added to an Algorithm

\* the values the calls are made with
HeaderNames == << <<"H1">>, <<"H2">>, <<"H3">>, <<"H4">> >>
CellValues == {<<"a">>, <<"b">>}
Captions == {<<>>, <<"Cap">>}
Labels == {<<>>, <<"lab">>}
Titles == {<<>>, <<"Name">>}
Bodies == {<<"x = y">>, <<"E = mc^2">>}
ListTypes == {"ITEMIZE", "ENUMERATE", "DESCRIPTION"}
TheoremTypes == {"THEOREM", "PROOF", "CUSTOM"}

RowValues == UNION {[1..n -> CellValues] : n \in 0..MaxRowLen}

\* the objects the constructors build
EnvObjects ==
    {Table(SubSeq(HeaderNames, 1, n), <<"h">>) : n \in 0..MaxCols}
    \cup {Figure(<<"img.png">>, <<"h">>)}
    \cup {Equation(numbered) : numbered \in BOOLEAN}
    \cup {List(type) : type \in ListTypes}
    \cup {Algorithm(caption) : caption \in Captions}
    \cup {TheoremEnvironment(type, thContent, title) :
              type \in TheoremTypes, thContent \in Bodies, title \in Titles}
    \cup {TheoremEnvironmentCustom("axiom", thContent, <<>>) : thContent \in Bodies}

EnvInit ==
    /\ env \in EnvObjects
    /\ SanIdle /\ DocIdle /\ BibIdle

EnvUnchanged == UNCHANGED <<content, result, pos, inMathMode, startMathPos, sanPc, doc, out, calls,
                            bib, files, ret>>

EnvSetCaption ==
    /\ env.kind \in {"Table", "Figure", "Algorithm"}
    /\ \E caption \in Captions : env' = setCaption(env, caption)
    /\ EnvUnchanged

EnvSetLabel ==
    /\ env.kind \in {"Table", "Figure", "Equation", "Algorithm"}
    /\ \E label \in Labels : env' = setLabel(env, label)
    /\ EnvUnchanged

EnvSetWidth ==
    /\ env.kind = "Figure"
    /\ \E width \in {<<>>, <<"5cm">>} : env' = setWidth(env, width)
    /\ EnvUnchanged

EnvSetContent ==
    /\ env.kind \in {"Equation", "Theorem"}
    /\ \E c \in Bodies : env' = setContent(env, c)
    /\ EnvUnchanged

EnvSetTitle ==
    /\ env.kind = "Theorem"
    /\ \E title \in Titles : env' = setTitle(env, title)
    /\ EnvUnchanged

EnvAddRow ==
    /\ env.kind = "Table"
    /\ Len(env.m_rows) < MaxRows
    /\ \E row \in RowValues : env' = addRow(env, row)
    /\ EnvUnchanged

EnvAddItem ==
    /\ env.kind = "List"
    /\ Len(env.m_items) < MaxItems
    /\ \E item \in CellValues, label \in Labels : env' = addItem(env, item, label)
    /\ EnvUnchanged

EnvAddLine ==
    /\ env.kind = "Algorithm"
    /\ Len(env.m_lines) < MaxItems
    /\ \E line \in CellValues, indent \in 0..1 : env' = addLine(env, line, indent)
    /\ EnvUnchanged

EnvNext ==
    \/ EnvSetCaption \/ EnvSetLabel \/ EnvSetWidth \/ EnvSetContent
    \/ EnvSetTitle \/ EnvAddRow \/ EnvAddItem \/ EnvAddLine

SpecEnv == EnvInit /\ [][EnvNext]_vars

(***************************************************************************)
(* Properties of the Environment variants, checked under SpecEnv.          *)
(***************************************************************************)
StartsWith(s, t) == Len(t) <= Len(s) /\ SubSeq(s, 1, Len(t)) = t
EndsWith(s, t) == Len(t) <= Len(s) /\ SubSeq(s, Len(s) - Len(t) + 1, Len(s)) = t

\* C4: the text generate() returns starts with the text begin() returns and
\* ends with the text end() returns, for every Environment variant in every
\* state.
C4_BeginEndFrame ==
    /\ StartsWith(Environment_generate(env), Environment_begin(env))
    /\ EndsWith(Environment_generate(env), Environment_end(env))

\* the text split at its line ends: the lines, each without its "\n"
RECURSIVE LinesOf(_)
LinesOf(s) ==
    LET n == Find(s, <<"\n">>, 0)
    IN  IF n = npos THEN (IF s = <<>> THEN <<>> ELSE <<s>>)
        ELSE <<Substr(s, 0, n)>> \o LinesOf(Substr(s, n + 1, Len(s)))

\* the body of a generated text: from \begin{document} on
BodyOf(text) == Substr(text, Find(text, <<"\\begin{document}">>, 0), Len(text))

\* the preamble of a generated text: what comes before \begin{document}
PreambleOf(text) == Substr(text, 0, Find(text, <<"\\begin{document}">>, 0))

\* the places of the text s that hold the one-token value v
Places(s, v) == {k \in 1..Len(s) : <<s[k]>> = v}

\* how often the one-token value v occurs in the text s
RECURSIVE CountToken(_, _)
CountToken(s, v) ==
    IF s = <<>> THEN 0
    ELSE (IF <<Head(s)>> = v THEN 1 ELSE 0) + CountToken(Tail(s), v)

\* the first n values of a row joined by " & "
RECURSIVE JoinCells(_, _)
JoinCells(row, n) ==
    IF n = 0 THEN <<>>
    ELSE IF n = 1 THEN row[1]
    ELSE JoinCells(row, n - 1) \o <<" & ">> \o row[n]

\* how often v is among the first n values of the row (all of them when the
\* row is shorter)
ShownCount(row, n, v) ==
    Cardinality({i \in 1..Min(n, Len(row)) : row[i] = v})

RECURSIVE ShownInRows(_, _, _)
ShownInRows(rows, n, v) ==
    IF rows = <<>> THEN 0
    ELSE ShownCount(Head(rows), n, v) + ShownInRows(Tail(rows), n, v)

\* the line of the rendered table that holds row k: after the four opening
\* lines and the header line
TableRowLine(e, k) == LinesOf(Table_generate(e))[5 + k]

\* C9: in a Table with N >= 1 headers, a row of more than N values is
\* rendered as its first N values separated by N-1 " & " and closed by the
\* row terminator, and each value occurs in the output exactly as often as
\* it is among the first N values of the rows: the extra values are nowhere.
C9_RowTruncated ==
    (env.kind = "Table" /\ Len(env.m_headers) >= 1) =>
        LET N == Len(env.m_headers)
        IN  /\ \A k \in 1..Len(env.m_rows) :
                   Len(env.m_rows[k]) > N =>
                       /\ TableRowLine(env, k)
                              = JoinCells(env.m_rows[k], N) \o <<" \\\\ \\hline">>
                       /\ CountToken(TableRowLine(env, k), <<" & ">>) = N - 1
            /\ (\E k \in 1..Len(env.m_rows) : Len(env.m_rows[k]) > N) =>
                   \A v \in CellValues :
                       CountToken(Environment_generate(env), v)
                           = ShownInRows(env.m_rows, N, v)

\* C9 witness: a Table with headers and a row longer than the header list
\* whose extra value is none of the values rendered
C9_Witness ==
    /\ env.kind = "Table"
    /\ Len(env.m_headers) >= 1
    /\ \E k \in 1..Len(env.m_rows) :
           /\ Len(env.m_rows[k]) > Len(env.m_headers)
           /\ \E i \in (Len(env.m_headers) + 1)..Len(env.m_rows[k]) :
                  ShownInRows(env.m_rows, Len(env.m_headers), env.m_rows[k][i]) = 0

\* C20: in a Table with N headers, a row of k <= N values is rendered as
\* its k values with " & " between two neighbours only, so k-1 of them for
\* k >= 1, no " & " after the last value and no cell added, and then the
\* row terminator
C20_ShortRowNoTrailingAmpersand ==
    env.kind = "Table" =>
        \A r \in 1..Len(env.m_rows) :
            LET k == Len(env.m_rows[r])
            IN  k <= Len(env.m_headers) =>
                    /\ TableRowLine(env, r)
                           = JoinCells(env.m_rows[r], k) \o <<" \\\\ \\hline">>
                    /\ k >= 1 => CountToken(TableRowLine(env, r), <<" & ">>) = k - 1

(***************************************************************************)
(* SpecDoc: one document of any of the four variants, configured and       *)
(* filled through the methods of Document, and rendered with generate().   *)
(***************************************************************************)
MaxAttach == 1      \* sections, environments, raw fragments and preamble
                    \* lines attached to the document, all together
MaxGenerate == 2    \* generate() calls in a row, no mutating call in between

\* the values the calls are made with
DocTitle == <<"T">>
DocAuthor == <<"A">>
PackageOptions == {<<>>, <<"draft">>}
CiteKeys == {"smith2023"}
SomeSection == addContent(Section(<<"Intro">>, "SECTION"), <<"text">>)
SomeEquation == setContent(Equation(TRUE), <<"x = y">>)
SomeRaw == <<"\\clearpage">>
SomePreambleLine == <<"\\newcommand{\\R}{\\mathbb{R}}">>

DocLanguages == {"ENGLISH", "FRENCH"}

\* an external .bib file, and a bibliography of one manual entry
DocBibliographies ==
    { Bibliography_external(<<"refs">>, "IEEE"),
      addEntry(Bibliography_default, BibEntry(<<"smith2023">>, "ARTICLE")) }

DocObjects ==
    UNION {{ Article(DocTitle, DocAuthor, <<>>, language),
             Report(DocTitle, DocAuthor, <<>>, language),
             Book(DocTitle, DocAuthor, <<>>, language),
             Presentation(DocTitle, DocAuthor, <<>>, language) } :
           language \in DocLanguages}

Attached(d) ==
    Len(d.m_sections) + Len(d.m_environments) + Len(d.m_rawContent)
    + Len(d.m_customPreamble) + Len(d.Article_m_customPreamble)

DocInit ==
    /\ doc \in DocObjects
    /\ out = <<>>
    /\ calls = <<>>
    /\ SanIdle /\ EnvIdle /\ BibIdle

DocUnchanged == UNCHANGED <<content, result, pos, inMathMode, startMathPos, sanPc, env, bib, files, ret>>

\* what every mutating call leaves behind
DocMutated == out' = <<>> /\ calls' = <<>> /\ DocUnchanged

DocAddPackage ==
    /\ \E package \in {"amsthm", "geometry"}, options \in PackageOptions :
           doc' = addPackage(doc, package, options)
    /\ DocMutated

DocCite ==
    /\ \E key \in CiteKeys : doc' = cite(doc, key)
    /\ DocMutated

DocCitePages ==
    /\ \E key \in CiteKeys : doc' = citePages(doc, key, <<"12">>)
    /\ DocMutated

DocSetBibliography ==
    /\ \E b \in DocBibliographies : doc' = setBibliography(doc, b)
    /\ DocMutated

DocEnableTheorems ==
    /\ doc' = enableTheorems(doc)
    /\ DocMutated

DocEnableAlgorithms ==
    /\ doc' = enableAlgorithms(doc)
    /\ DocMutated

DocAddInPreamble ==
    /\ Attached(doc) < MaxAttach
    /\ doc' = addInPreamble(doc, SomePreambleLine)
    /\ DocMutated

DocAddSection ==
    /\ Attached(doc) < MaxAttach
    /\ doc' = addSection(doc, SomeSection)
    /\ DocMutated

DocAddEnvironment ==
    /\ Attached(doc) < MaxAttach
    /\ doc' = addEnvironment(doc, SomeEquation)
    /\ DocMutated

DocAddRawContent ==
    /\ Attached(doc) < MaxAttach
    /\ doc' = addRawContent(doc, SomeRaw)
    /\ DocMutated

DocAddFigure ==
    /\ Attached(doc) < MaxAttach
    /\ doc' = addFigure(doc, <<"img.png">>, <<"Cap">>, <<>>, <<"0.8", "\\textwidth">>, <<"htbp">>)
    /\ DocMutated

DocAddEquation ==
    /\ Attached(doc) < MaxAttach
    /\ doc' = addEquation(doc, <<"E = mc^2">>, <<"eq:e">>, TRUE)
    /\ DocMutated

DocAddAlgorithm ==
    /\ Attached(doc) < MaxAttach
    /\ doc' = addAlgorithm(doc, <<"Cap">>, <<>>)
    /\ DocMutated

DocAddTheorem ==
    /\ Attached(doc) < MaxAttach
    /\ doc' = addTheorem(doc, "THEOREM", <<"x = y">>, <<>>)
    /\ DocMutated

\* generate() that hands out the raw fragments and drops them
DocGenerate_draining ==
    /\ Len(calls) < MaxGenerate
    /\ out' = generate(doc)
    /\ calls' = Append(calls, "generate")
    /\ doc' = [doc EXCEPT !.m_rawContent = <<>>]
    /\ DocUnchanged

\* std::string generate() const: the text is returned, no member is written
DocGenerate ==
    /\ Len(calls) < MaxGenerate
    /\ out' = generate(doc)
    /\ calls' = Append(calls, "generate")
    /\ UNCHANGED doc
    /\ DocUnchanged

DocNext ==
    \/ DocAddPackage \/ DocCite \/ DocCitePages \/ DocSetBibliography
    \/ DocEnableTheorems \/ DocEnableAlgorithms \/ DocAddInPreamble
    \/ DocAddSection \/ DocAddEnvironment \/ DocAddRawContent
    \/ DocAddFigure \/ DocAddEquation \/ DocAddAlgorithm \/ DocAddTheorem
    \/ DocGenerate

SpecDoc == DocInit /\ [][DocNext]_vars

C2_BibliographyIffCited ==
    LET body == generateDocument(doc)
    IN  (/\ Contains(body, <<"\\bibliographystyle{">>)
         /\ Contains(body, <<"\\bibliography{">>))
        <=> (doc.m_usedCitations # {})

\* the line is a \usepackage line that names package
NamesPackage(line, package) ==
    /\ Len(line) >= 4
    /\ line[1] = "\\usepackage"
    /\ SubSeq(line, Len(line) - 2, Len(line)) = <<"{", package, "}">>

\* C3: for every package registered, the preamble has exactly one
\* \usepackage line that names it, and that line carries the options
\* registered last.
C3_OneLinePerPackage ==
    LET lines == LinesOf(generatePreamble(doc))
    IN  \A package \in DOMAIN doc.m_packages :
            LET named == {i \in 1..Len(lines) : NamesPackage(lines[i], package)}
                options == doc.m_packages[package]
            IN  /\ Cardinality(named) = 1
                /\ \A i \in named :
                       lines[i] = <<"\\usepackage">>
                                  \o (IF options # <<>>
                                      THEN <<"[">> \o options \o <<"]">> ELSE <<>>)
                                  \o <<"{", package, "}">>

\* the parts the body of a Report is said to have, in that order, each
\* optional part present exactly when it is set or enabled
ExpectedReportBody(d) ==
    <<"\\begin{document}", "\n", "\n">>
    \o (IF d.m_title # <<>> THEN <<"\\maketitle", "\n", "\n">> ELSE <<>>)
    \o (IF d.m_abstract # <<>>
        THEN <<"\\begin{abstract}", "\n">> \o d.m_abstract
             \o <<"\n", "\\end{abstract}", "\n", "\n">>
        ELSE <<>>)
    \o (IF d.m_includeTableOfContents
        THEN <<"\\tableofcontents", "\n", "\\clearpage", "\n", "\n">> ELSE <<>>)
    \o (IF d.m_includeListOfFigures
        THEN <<"\\listoffigures", "\n", "\\clearpage", "\n", "\n">> ELSE <<>>)
    \o (IF d.m_includeListOfTables
        THEN <<"\\listoftables", "\n", "\\clearpage", "\n", "\n">> ELSE <<>>)
    \o RawContent_generate(d.m_rawContent)
    \o Sections_generate(d.m_sections)
    \o Environments_generate(d.m_environments)
    \o (IF d.m_usedCitations # {}
        THEN getIncludeCommands(d.m_bibliography) \o <<"\n">> ELSE <<>>)
    \o <<"\\end{document}", "\n">>

\* C12: the body of a Report is the title, the abstract, the table of
\* contents, the list of figures, the list of tables, the raw content, the
\* sections, the environments and the bibliography-include commands, in
\* this order; the bibliography part is there when a citation was registered
C12_ReportBodyOrder ==
    doc.class = "Report" => generateDocument(doc) = ExpectedReportBody(doc)

\* C18: a document on which no citation key was registered has no
\* bibliography-include command in its body, whatever its variant, with a
\* Bibliography attached or not, be it an external file or manual entries
C18_NoCitationNoBibliography ==
    (out # <<>> /\ doc.m_usedCitations = {}) =>
        /\ Places(BodyOf(out), <<"\\bibliographystyle{">>) = {}
        /\ Places(BodyOf(out), <<"\\bibliography{">>) = {}

\* C18 witness: an Article, whose body has a bibliography block, rendered
\* with a Bibliography attached and no citation registered
C18_Witness ==
    /\ out # <<>>
    /\ doc.class = "Article"
    /\ doc.m_usedCitations = {}
    /\ doc.m_bibliography # Bibliography_default
    /\ Contains(out, <<"\\end{document}">>)

\* the fragments addInPreamble stored, in the member the call wrote
AddedInPreamble(d) == d.m_customPreamble \o d.Article_m_customPreamble

\* C25: the preamble of every variant holds the blocks the base preamble
\* writes for the same state: the theorem setup when theorems are enabled,
\* the algorithm packages when algorithms are enabled, and every fragment
\* added with addInPreamble, each once
C25_BasePreambleBlocks ==
    out # <<>> =>
        LET preamble == PreambleOf(out)
            added == AddedInPreamble(doc)
        IN  /\ doc.m_theoremsEnabled =>
                   /\ Contains(preamble, getTheoremSetup(doc.m_language))
                   /\ Cardinality(Places(preamble, <<"\\theoremstyle{plain}">>)) = 1
            /\ doc.m_algorithmsEnabled =>
                   /\ Contains(preamble, getAlgorithmPackages)
                   /\ Cardinality(Places(preamble, <<"algpseudocode">>)) = 1
            /\ \A k \in 1..Len(added) :
                   Cardinality(Places(preamble, added[k]))
                       = Cardinality({h \in 1..Len(added) : added[h] = added[k]})

(***************************************************************************)
(* SpecPres: a Presentation whose five input streams (raw fragments,       *)
(* structural markers, slides, Sections, Environments) are filled in any   *)
(* interleaving, and rendered with generate().  There calls holds the      *)
(* stream-filling calls made so far, in order.                             *)
(***************************************************************************)
MaxCalls == 3       \* stream-filling calls made on the presentation

TextLine == <<"Some text">>
ListingLine == lstlistingMarker \o <<"int x;", "\\end{lstlisting}">>

\* the slides: one of text, one whose second line opens a listing, one added
\* through the single-string overload with a listing
SlidePool ==
    { <<<<"Intro">>, <<TextLine>>>>,
      <<<<"Code">>, <<TextLine, ListingLine>>>>,
      <<<<"Demo">>, <<ListingLine>>>> }

\* a Section with a line of text, and one with inline math in its text
SectionPool ==
    { addContent(Section(<<"Results">>, "SECTION"), TextLine),
      addContent(Section(<<"Model">>, "SUBSECTION"), <<"$", "é", "$">>) }

EnvironmentPool ==
    { setContent(Equation(TRUE), <<"x = y">>),
      TheoremEnvironment("EXAMPLE", ListingLine, <<>>) }

PresObjects ==
    {Presentation(title, DocAuthor, <<"\\today">>, "ENGLISH") : title \in {<<>>, DocTitle}}

PresInit ==
    /\ doc \in PresObjects
    /\ out = <<>>
    /\ calls = <<>>
    /\ SanIdle /\ EnvIdle /\ BibIdle

\* a stream-filling call c was made: the text handed out before is out of date
PresCalled(c) ==
    /\ calls' = Append(calls, c)
    /\ out' = <<>>
    /\ UNCHANGED <<content, result, pos, inMathMode, startMathPos, sanPc, env, bib, files, ret>>

PresAddRawContent ==
    /\ Len(calls) < MaxCalls
    /\ doc' = addRawContent(doc, SomeRaw)
    /\ PresCalled(<<"addRawContent", SomeRaw>>)

\* Presentation::addSection(title, createFrame)
PresAddSection ==
    /\ Len(calls) < MaxCalls
    /\ \E createFrame \in BOOLEAN :
           /\ doc' = addStructure(doc, "SECTION", <<"Part A">>, createFrame)
           /\ PresCalled(<<"addStructure", <<"SECTION", <<"Part A">>, createFrame>>>>)

PresAddSubsection ==
    /\ Len(calls) < MaxCalls
    /\ doc' = addStructure(doc, "SUBSECTION", <<"Sub">>, TRUE)
    /\ PresCalled(<<"addStructure", <<"SUBSECTION", <<"Sub">>, TRUE>>>>)

PresAddSubsubsection ==
    /\ Len(calls) < MaxCalls
    /\ doc' = addStructure(doc, "SUBSUBSECTION", <<"Detail">>, FALSE)
    /\ PresCalled(<<"addStructure", <<"SUBSUBSECTION", <<"Detail">>, FALSE>>>>)

PresAddSlide ==
    /\ Len(calls) < MaxCalls
    /\ \E slide \in SlidePool :
           /\ doc' = addSlide(doc, slide[1], slide[2])
           /\ PresCalled(<<"addSlide", slide>>)

\* Document::addSection(const Section &)
PresAddDocSection ==
    /\ Len(calls) < MaxCalls
    /\ \E section \in SectionPool :
           /\ doc' = addSection(doc, section)
           /\ PresCalled(<<"Document::addSection", section>>)

PresAddEnvironment ==
    /\ Len(calls) < MaxCalls
    /\ \E e \in EnvironmentPool :
           /\ doc' = addEnvironment(doc, e)
           /\ PresCalled(<<"addEnvironment", e>>)

PresGenerate ==
    /\ out = <<>>
    /\ out' = generate(doc)
    /\ UNCHANGED <<doc, calls>>
    /\ UNCHANGED <<content, result, pos, inMathMode, startMathPos, sanPc, env, bib, files, ret>>

PresNext ==
    \/ PresAddRawContent \/ PresAddSection \/ PresAddSubsection
    \/ PresAddSubsubsection \/ PresAddSlide \/ PresAddDocSection
    \/ PresAddEnvironment \/ PresGenerate

SpecPres == PresInit /\ [][PresNext]_vars

(***************************************************************************)
(* Properties of Presentation::generateDocument, checked under SpecPres.   *)
(***************************************************************************)
\* the arguments of the calls of one kind, in the order the calls were made
RECURSIVE ArgsOf(_, _)
ArgsOf(cs, kind) ==
    IF cs = <<>> THEN <<>>
    ELSE (IF Head(cs)[1] = kind THEN <<Head(cs)[2]>> ELSE <<>>) \o ArgsOf(Tail(cs), kind)

StreamOf(kind) == ArgsOf(calls, kind)

\* the body the fixed order gives for the calls made, stream by stream
ExpectedPresentationBody ==
    <<"\\begin{document}", "\n", "\n">>
    \o Pres_titleFrame(doc)
    \o Pres_planFrame
    \o RawContent_generate(StreamOf("addRawContent"))
    \o Pres_structure(StreamOf("addStructure"))
    \o Pres_slides(StreamOf("addSlide"))
    \o Pres_sections(StreamOf("Document::addSection"))
    \o Pres_environments(StreamOf("addEnvironment"))
    \o <<"\\end{document}", "\n">>

\* C5: the body of a Presentation is the title frame (when there is a
\* title), the Plan frame, the raw fragments, the structural markers, the
\* slides, the Sections, the Environments and \end{document}, in this order,
\* each stream in the order of its own calls, however the calls of
\* different streams were interleaved.
C5_FixedOrder == out # <<>> => BodyOf(out) = ExpectedPresentationBody

\* C5 witness: a titled presentation rendered after an Environment, then a
\* slide, then a raw fragment were added: the reverse of the output order
C5_Witness ==
    /\ out # <<>>
    /\ doc.m_title # <<>>
    /\ Len(calls) = 3
    /\ calls[1][1] = "addEnvironment"
    /\ calls[2][1] = "addSlide"
    /\ calls[3][1] = "addRawContent"

\* some line holds the text \begin{lstlisting}
HasListing(lines) ==
    \E i \in 1..Len(lines) : \E p \in 1..(Len(lines[i]) - 2) :
        SubSeq(lines[i], p, p + 2) = <<"\\begin{", "lstlisting", "}">>

\* the frames a text opens, in order: whether declared [fragile], whether
\* given a title, and the title
RECURSIVE FrameOpenings(_)
FrameOpenings(s) ==
    LET i == Find(s, <<"\\begin{frame}">>, 0)
    IN  IF i = npos THEN <<>>
        ELSE LET rest == Substr(s, i + 1, Len(s))
                 fragile == rest # <<>> /\ Head(rest) = "[fragile]"
                 afterOption == IF fragile THEN Tail(rest) ELSE rest
                 titled == afterOption # <<>> /\ Head(afterOption) = "{"
                 title == IF titled
                          THEN Substr(afterOption, 1, Find(afterOption, <<"}">>, 0) - 1)
                          ELSE <<>>
             IN  <<[fragile |-> fragile, titled |-> titled, title |-> title]>>
                 \o FrameOpenings(rest)

\* C6: every slide added has one frame of its own in the body, after the
\* frames of the title, of the Plan and of the structural markers; the frame
\* carries the title of the slide and is declared [fragile] if and only if a
\* content line of the slide holds \begin{lstlisting}; the body opens no
\* frame beyond these and one per Section and per Environment.
C6_OneFramePerSlide ==
    out # <<>> =>
        LET frames == FrameOpenings(BodyOf(out))
            slides == StreamOf("addSlide")
            markers == StreamOf("addStructure")
            before == (IF doc.m_title # <<>> THEN 1 ELSE 0) + 1
                      + Cardinality({k \in 1..Len(markers) : markers[k][3]})
        IN  /\ Len(frames) = before + Len(slides)
                             + Len(StreamOf("Document::addSection"))
                             + Len(StreamOf("addEnvironment"))
            /\ \A k \in 1..Len(slides) :
                   frames[before + k] = [fragile |-> HasListing(slides[k][2]),
                                         titled |-> TRUE,
                                         title |-> slides[k][1]]

\* C6 witness: a rendered presentation with a slide that holds a listing in
\* its second line and a slide that holds none
C6_Witness ==
    /\ out # <<>>
    /\ \E j, k \in 1..Len(doc.m_slides) :
           /\ Len(doc.m_slides[j][2]) = 2
           /\ ~HasListing(<<doc.m_slides[j][2][1]>>)
           /\ HasListing(doc.m_slides[j][2])
           /\ ~HasListing(doc.m_slides[k][2])

(***************************************************************************)
(* SpecBook: a Book that is given parts, chapters of parts, free chapters  *)
(* and appendices, and rendered with generate().  There calls holds the    *)
(* calls made so far, in order.                                            *)
(***************************************************************************)
MaxBookCalls == 4   \* calls made on the book before it is rendered

PartTitles == {<<"Basics">>, <<"Advanced">>}
ChapterPool ==
    { addContent(Section(<<"Ch-A">>, "CHAPTER"), TextLine),
      Section(<<"Ch-B">>, "CHAPTER") }
FreeChapter == addContent(Section(<<"Ch-Free">>, "CHAPTER"), TextLine)
AppendixChapter == Section(<<"Ch-App">>, "CHAPTER")

BookInit ==
    /\ doc = Book(DocTitle, DocAuthor, <<"\\today">>, "ENGLISH")
    /\ out = <<>>
    /\ calls = <<>>
    /\ SanIdle /\ EnvIdle /\ BibIdle

\* the call c was made: the text handed out before is out of date
BookCalled(c) ==
    /\ calls' = Append(calls, c)
    /\ out' = <<>>
    /\ UNCHANGED <<content, result, pos, inMathMode, startMathPos, sanPc, env, bib, files, ret>>

BookAddPart ==
    /\ Len(calls) < MaxBookCalls
    /\ \E title \in PartTitles :
           /\ doc' = addPart(doc, title)
           /\ BookCalled(<<"addPart", title>>)

BookAddChapterToPart ==
    /\ Len(calls) < MaxBookCalls
    /\ \E chapter \in ChapterPool :
           /\ doc' = addChapterToPart(doc, chapter)
           /\ BookCalled(<<"addChapterToPart", chapter>>)

\* Document::addSection(const Section &): a chapter outside the parts
BookAddSection ==
    /\ Len(calls) < MaxBookCalls
    /\ doc' = addSection(doc, FreeChapter)
    /\ BookCalled(<<"addSection", FreeChapter>>)

BookAddAppendix ==
    /\ Len(calls) < MaxBookCalls
    /\ doc' = addAppendix(doc, AppendixChapter)
    /\ BookCalled(<<"addAppendix", AppendixChapter>>)

BookGenerate ==
    /\ out = <<>>
    /\ out' = generate(doc)
    /\ UNCHANGED <<doc, calls>>
    /\ UNCHANGED <<content, result, pos, inMathMode, startMathPos, sanPc, env, bib, files, ret>>

BookNext ==
    \/ BookAddPart \/ BookAddChapterToPart \/ BookAddSection
    \/ BookAddAppendix \/ BookGenerate

SpecBook == BookInit /\ [][BookNext]_vars

(***************************************************************************)
(* Properties of Book::generateDocument, checked under SpecBook.           *)
(***************************************************************************)
\* the chapters handed to addChapterToPart while part i (0-based) was the
\* part added last, in call order; added counts the addPart calls so far
RECURSIVE ChaptersGivenTo(_, _, _)
ChaptersGivenTo(cs, i, added) ==
    IF cs = <<>> THEN <<>>
    ELSE IF Head(cs)[1] = "addPart" THEN ChaptersGivenTo(Tail(cs), i, added + 1)
    ELSE (IF Head(cs)[1] = "addChapterToPart" /\ added - 1 = i
          THEN <<Head(cs)[2]>> ELSE <<>>)
         \o ChaptersGivenTo(Tail(cs), i, added)

\* the chapters handed to addChapterToPart when a part had been added
RECURSIVE ChaptersAttached(_, _)
ChaptersAttached(cs, added) ==
    IF cs = <<>> THEN <<>>
    ELSE IF Head(cs)[1] = "addPart" THEN ChaptersAttached(Tail(cs), added + 1)
    ELSE (IF Head(cs)[1] = "addChapterToPart" /\ added >= 1
          THEN <<Head(cs)[2]>> ELSE <<>>)
         \o ChaptersAttached(Tail(cs), added)

\* the text cut at each \part{: one piece per \part line, each from its
\* \part{ to the next one (the last to the end of the text)
RECURSIVE PartBlocks(_)
PartBlocks(s) ==
    LET i == Find(s, <<"\\part{">>, 0)
    IN  IF i = npos THEN <<>>
        ELSE LET n == Find(s, <<"\\part{">>, i + 1)
             IN  IF n = npos THEN <<Substr(s, i, Len(s))>>
                 ELSE <<Substr(s, i, n - i)>> \o PartBlocks(Substr(s, n, Len(s)))

\* the block of part i (0-based): its \part line, then its chapters
ExpectedPartBlock(i) ==
    <<"\\part{">> \o StreamOf("addPart")[i + 1] \o <<"}", "\n", "\n">>
    \o Sections_generate(ChaptersGivenTo(calls, i, 0))

\* C10: the body has one \part line per part added, in the order added; the
\* block of a part holds the chapters attached while it was the part added
\* last, in order, and nothing else before the next \part line; each chapter
\* is rendered as often as it was attached, so once per attachment.  (A
\* chapter handed over before any part exists is not attached.)
C10_ChaptersUnderTheirPart ==
    out # <<>> =>
        LET blocks == PartBlocks(BodyOf(out))
            parts == StreamOf("addPart")
            attached == ChaptersAttached(calls, 0)
        IN  /\ Len(blocks) = Len(parts)
            /\ \A i \in 0..(Len(parts) - 1) :
                   /\ StartsWith(blocks[i + 1], ExpectedPartBlock(i))
                   /\ (i + 1 < Len(parts) => blocks[i + 1] = ExpectedPartBlock(i))
            /\ \A chapter \in ChapterPool :
                   CountToken(BodyOf(out), chapter.m_title)
                       = Cardinality({k \in 1..Len(attached) : attached[k] = chapter})

\* C10 witness: two parts, one chapter attached to the first of them (part
\* index 0) before the second was added, and the book rendered
C10_Witness ==
    /\ out # <<>>
    /\ Len(calls) = 3
    /\ calls[1][1] = "addPart"
    /\ calls[2][1] = "addChapterToPart"
    /\ calls[3][1] = "addPart"
    /\ Len(PartBlocks(BodyOf(out))) = 2
    /\ CountToken(PartBlocks(BodyOf(out))[1], calls[2][2].m_title) = 1
    /\ CountToken(PartBlocks(BodyOf(out))[2], calls[2][2].m_title) = 0

\* the chapters of the pool that some addChapterToPart call attached
AttachedChapters == {ChaptersAttached(calls, 0)[k] : k \in 1..Len(ChaptersAttached(calls, 0))}

\* C11: addChapterToPart called while no part has been added leaves the
\* Book as it was, and a chapter that was only ever handed over that way is
\* in no text generate() returns afterwards, parts added later or not
C11_NoPartNoOp ==
    /\ [][(/\ StreamOf("addPart") = <<>>
           /\ \E chapter \in ChapterPool :
                  calls' = Append(calls, <<"addChapterToPart", chapter>>))
          => doc' = doc]_vars
    /\ [](out # <<>> =>
            \A chapter \in ChapterPool :
                chapter \notin AttachedChapters => Places(out, chapter.m_title) = {})

\* C11 witness: a chapter handed over before any part, a part added after
\* it, and the book rendered without the chapter
C11_Witness ==
    /\ out # <<>>
    /\ Len(calls) >= 2
    /\ calls[1][1] = "addChapterToPart"
    /\ calls[2][1] = "addPart"
    /\ calls[1][2] \notin AttachedChapters
    /\ Len(PartBlocks(BodyOf(out))) >= 1
    /\ Places(out, calls[1][2].m_title) = {}

(***************************************************************************)
(* SpecArt: an Article, titled or not, that is given keywords, an          *)
(* abstract, sections and citations, and rendered with generate().  There  *)
(* calls holds the calls made so far, in order.                            *)
(***************************************************************************)
MaxArtCalls == 3   \* calls made on the article before it is rendered

ArtTitles == {<<>>, DocTitle}
ArtAuthors == {<<>>, DocAuthor}
KeywordPool == {<<"latex">>, <<"c++">>}
ArtAbstract == <<"Summary.">>
ArtSectionPool ==
    { addContent(Section(<<"Intro">>, "SECTION"), <<"hello">>),
      Section(<<"Details">>, "SUBSECTION") }

ArtInit ==
    /\ \E title \in ArtTitles, author \in ArtAuthors, language \in DocLanguages :
           doc = Article(title, author, <<"\\today">>, language)
    /\ out = <<>>
    /\ calls = <<>>
    /\ SanIdle /\ EnvIdle /\ BibIdle

\* the call c was made: the text handed out before is out of date
ArtCalled(c) ==
    /\ calls' = Append(calls, c)
    /\ out' = <<>>
    /\ UNCHANGED <<content, result, pos, inMathMode, startMathPos, sanPc, env, bib, files, ret>>

ArtAddKeyword ==
    /\ Len(calls) < MaxArtCalls
    /\ \E keyword \in KeywordPool :
           /\ doc' = addKeyword(doc, keyword)
           /\ ArtCalled(<<"addKeyword", keyword>>)

ArtSetAbstract ==
    /\ Len(calls) < MaxArtCalls
    /\ doc' = setAbstract(doc, ArtAbstract)
    /\ ArtCalled(<<"setAbstract", ArtAbstract>>)

ArtAddSection ==
    /\ Len(calls) < MaxArtCalls
    /\ \E section \in ArtSectionPool :
           /\ doc' = addSection(doc, section)
           /\ ArtCalled(<<"addSection", section>>)

ArtCite ==
    /\ Len(calls) < MaxArtCalls
    /\ \E key \in CiteKeys :
           /\ doc' = cite(doc, key)
           /\ ArtCalled(<<"cite", key>>)

ArtGenerate ==
    /\ out = <<>>
    /\ out' = generate(doc)
    /\ UNCHANGED <<doc, calls>>
    /\ UNCHANGED <<content, result, pos, inMathMode, startMathPos, sanPc, env, bib, files, ret>>

ArtNext ==
    \/ ArtAddKeyword \/ ArtSetAbstract \/ ArtAddSection \/ ArtCite \/ ArtGenerate

SpecArt == ArtInit /\ [][ArtNext]_vars

(***************************************************************************)
(* Properties of Article::generatePreamble and Article::generateDocument,  *)
(* checked under SpecArt.                                                  *)
(***************************************************************************)
\* the values joined by ", "
RECURSIVE CommaJoined(_)
CommaJoined(ks) ==
    IF ks = <<>> THEN <<>>
    ELSE IF Len(ks) = 1 THEN Head(ks)
    ELSE Head(ks) \o <<", ">> \o CommaJoined(Tail(ks))

\* the \keywords line of the keywords added so far
ExpectedKeywordsLine ==
    <<"\n", "\\keywords{">> \o CommaJoined(StreamOf("addKeyword")) \o <<"}", "\n">>

\* C13: the preamble of an Article defines the \keywords command of its
\* language, and its body holds the \keywords{...} line, exactly when a
\* keyword has been added; the line lists the keywords in the order added
\* and stands after the title block and before the abstract
C13_KeywordsIffAdded ==
    out # <<>> =>
        LET keywords == StreamOf("addKeyword")
            body == BodyOf(out)
            at == Find(body, ExpectedKeywordsLine, 0)
        IN  /\ Contains(PreambleOf(out),
                        <<"\\providecommand{\\keywords}[1]{\\par\\noindent\\textbf{",
                          keywordsTitle(doc.m_language), "} #1}", "\n">>)
               <=> keywords # <<>>
            /\ Contains(body, <<"\\keywords{">>) <=> keywords # <<>>
            /\ keywords # <<>> =>
                   /\ at # npos
                   /\ Contains(body, <<"\\maketitle">>)
                          => Find(body, <<"\\maketitle">>, 0) < at
                   /\ Contains(body, <<"\\begin{abstract}">>)
                          => at < Find(body, <<"\\begin{abstract}">>, 0)

\* where the text s has gone past the pieces, found one after the other
\* from the place p on (npos when one of them is missing)
RECURSIVE PastInOrder(_, _, _)
PastInOrder(s, pieces, p) ==
    IF pieces = <<>> THEN p
    ELSE LET i == Find(s, Head(pieces), p)
         IN  IF i = npos THEN npos
             ELSE PastInOrder(s, Tail(pieces), i + Len(Head(pieces)))

\* the sectioning command line of a section, then its content lines
RECURSIVE SectionPieces(_)
SectionPieces(ss) ==
    IF ss = <<>> THEN <<>>
    ELSE LET sec == Head(ss)
             command == IF sec.m_level = "SECTION" THEN "\\section"
                        ELSE IF sec.m_level = "SUBSECTION" THEN "\\subsection"
                        ELSE "\\chapter"
         IN  << <<command, "{">> \o sec.m_title \o <<"}", "\n">> >>
             \o [k \in 1..Len(sec.m_content) |-> sec.m_content[k] \o <<"\n">>]
             \o SectionPieces(Tail(ss))

\* C19: the text of an Article with a title T, an author A and sections
\* holds, in this order, the \documentclass line, \title{T}, \author{A},
\* \begin{document}, \maketitle, then for each section in the order attached
\* its sectioning command followed by its content, and its last line is
\* \end{document}
C19_ArticleEndToEnd ==
    (out # <<>> /\ doc.m_title # <<>> /\ doc.m_author # <<>>) =>
        LET past == PastInOrder(out,
                        << <<"\\documentclass{", "article", "}", "\n">>,
                           <<"\\title{">> \o doc.m_title \o <<"}", "\n">>,
                           <<"\\author{">> \o doc.m_author \o <<"}", "\n">>,
                           <<"\n", "\\begin{document}", "\n">>,
                           <<"\n", "\\maketitle", "\n">> >>
                        \o SectionPieces(StreamOf("addSection")), 0)
        IN  /\ past # npos
            /\ past <= Len(out) - 2
            /\ SubSeq(out, Len(out) - 2, Len(out)) = <<"\n", "\\end{document}", "\n">>
            /\ Places(out, <<"\\end{document}">>) = {Len(out) - 1}

\* C19 witness: an Article with title and author, the section Intro with
\* its content and the bare subsection attached one after the other, rendered
C19_Witness ==
    /\ out # <<>>
    /\ doc.m_title = DocTitle /\ doc.m_author = DocAuthor
    /\ Len(StreamOf("addSection")) = 2
    /\ StreamOf("addSection")[1].m_content = << <<"hello">> >>
    /\ StreamOf("addSection")[2].m_level = "SUBSECTION"
    /\ Contains(out, <<"\\section", "{", "Intro", "}", "\n", "hello", "\n">>)

(***************************************************************************)
(* SpecBib: a Bibliography built by one of its three constructors, changed *)
(* through setBibFile, addEntry, setStyle and setCustomStyle, and written  *)
(* out with generateBibFile.  There calls holds the generateBibFile calls  *)
(* made so far, each with its directory and whether the file could be      *)
(* opened.                                                                 *)
(***************************************************************************)
MaxEntries == 2        \* manual entries added to the bibliography
MaxBibFileCalls == 2   \* calls of generateBibFile

BibFileNames == {<<"refs">>}
BibStyles ==
    {"PLAIN", "ALPHA", "ABBRV", "ACM", "IEEE", "APA", "CHICAGO", "MLA", "HARVARD", "CUSTOM"}
CustomStyles == {<<"mystyle">>}
OutputDirs == {<<>>, <<"build">>}
EntryPool ==
    { addField(addField(BibEntry(<<"smith2023">>, "ARTICLE"), "title", <<"On X">>),
               "author", <<"Smith">>),
      BibEntry(<<"doe2020">>, "BOOK") }

BibInit ==
    /\ bib \in {Bibliography_default}
               \cup {Bibliography_external(f, style) : f \in BibFileNames, style \in BibStyles}
               \cup {Bibliography_custom(f, c) : f \in BibFileNames, c \in CustomStyles}
    /\ files = NoFiles
    /\ ret = NoObject
    /\ SanIdle /\ EnvIdle /\ DocIdle

\* a mutator of bib ran: it returns nothing
BibMutated ==
    /\ ret' = NoObject
    /\ UNCHANGED <<files, calls>>
    /\ UNCHANGED <<content, result, pos, inMathMode, startMathPos, sanPc, env, doc, out>>

BibSetBibFile ==
    /\ \E f \in BibFileNames, useExternalFile \in BOOLEAN :
           bib' = setBibFile(bib, f, useExternalFile)
    /\ BibMutated

BibAddEntry ==
    /\ Len(bib.m_entries) < MaxEntries
    /\ \E entry \in EntryPool : bib' = addEntry(bib, entry)
    /\ BibMutated

BibSetStyle ==
    /\ \E style \in BibStyles : bib' = setStyle(bib, style)
    /\ BibMutated

BibSetCustomStyle ==
    /\ \E c \in CustomStyles : bib' = setCustomStyle(bib, c)
    /\ BibMutated

\* generateBibFile is const; the std::ofstream opens or not
BibGenerateBibFile ==
    /\ Len(calls) < MaxBibFileCalls
    /\ \E outputDir \in OutputDirs, canOpen \in BOOLEAN :
           /\ ret' = generateBibFile(bib, outputDir, files, canOpen).ret
           /\ files' = generateBibFile(bib, outputDir, files, canOpen).fs
           /\ calls' = Append(calls, <<"generateBibFile", outputDir, canOpen>>)
    /\ UNCHANGED bib
    /\ UNCHANGED <<content, result, pos, inMathMode, startMathPos, sanPc, env, doc, out>>

BibNext ==
    \/ BibSetBibFile \/ BibAddEntry \/ BibSetStyle \/ BibSetCustomStyle
    \/ BibGenerateBibFile

SpecBib == BibInit /\ [][BibNext]_vars

(***************************************************************************)
(* Properties of Bibliography, checked under SpecBib.                      *)
(***************************************************************************)
\* the name written between \bibliographystyle{ and the next }
EmittedStyleName(b) ==
    LET t == getIncludeCommands(b)
        k == CHOOSE i \in 1..Len(t) : t[i] = "\\bibliographystyle{"
        j == CHOOSE i \in (k + 1)..Len(t) :
                 t[i] = "}" /\ \A h \in (k + 1)..(i - 1) : t[h] # "}"
    IN  SubSeq(t, k + 1, j - 1)

\* the literal of each named style
StyleLiteral ==
    [s \in BibStyles \ {"CUSTOM"} |->
        CASE s = "PLAIN" -> <<"plain">>
          [] s = "ALPHA" -> <<"alpha">>
          [] s = "ABBRV" -> <<"abbrv">>
          [] s = "ACM" -> <<"acm">>
          [] s = "IEEE" -> <<"ieeetr">>
          [] s = "APA" -> <<"apalike">>
          [] s = "CHICAGO" -> <<"chicago">>
          [] s = "MLA" -> <<"mla">>
          [] s = "HARVARD" -> <<"harvard">>]

\* C22: the name emitted in \bibliographystyle{...} is the stored custom
\* name exactly when the style is CUSTOM, and the fixed literal of the named
\* style otherwise; a style other than CUSTOM implies an empty stored custom
\* name
C22_StyleName ==
    /\ (EmittedStyleName(bib) = bib.m_customStyle) <=> (bib.m_style = "CUSTOM")
    /\ bib.m_style # "CUSTOM" =>
           /\ EmittedStyleName(bib) = StyleLiteral[bib.m_style]
           /\ bib.m_customStyle = <<>>

\* the Bibliography built by the default constructor, after setStyle(HARVARD):
\* harvard is emitted
C22_Witness ==
    /\ bib.m_bibFile = <<"references">>
    /\ bib.m_style = "HARVARD"
    /\ EmittedStyleName(bib) = <<"harvard">>

\* C14: in every state of a Bibliography that the constructors, setBibFile,
\* addEntry, setStyle and setCustomStyle lead to, a manual entry added
\* means the externally-supplied-file flag is false
C14_EntriesNotExternal ==
    bib.m_entries # <<>> => ~bib.m_useExternalFile

\* C15: generateBibFile returns true, having written the .bib file, only
\* when the bibliography has manual entries and is not externally supplied;
\* without manual entries, or when the file cannot be opened, it returns
\* false and no file is written or changed; the Bibliography is never
\* changed by the call
C15_BibFileOnlyFromEntries ==
    [][calls' # calls =>
          LET call == calls'[Len(calls')]
              path == (IF call[2] # <<>> THEN call[2] \o <<"/">> ELSE <<>>)
                      \o bib.m_bibFile \o <<".bib">>
          IN  /\ bib' = bib
              /\ ret' \in BOOLEAN
              /\ ret' => /\ bib.m_entries # <<>> /\ ~bib.m_useExternalFile
                         /\ path \in DOMAIN files'.data
              /\ (bib.m_entries = <<>> \/ ~call[3]) =>
                     ~ret' /\ files'.data = files.data]_vars

(***************************************************************************)
(* SpecAdd: a document filled through the convenience adders (addFigure,   *)
(* addTable, addList, addEquation, addAlgorithm, addTheorem), whose        *)
(* environments are then changed through the handles the adders returned,  *)
(* and rendered with generate().  There calls holds the calls made so far, *)
(* in order: <<adder, k, object>> for the adder that returned the k-th     *)
(* handle with the object as it was on return, <<call, k, argument>> for a *)
(* call made through the k-th handle.                                      *)
(***************************************************************************)
MaxAddCalls == 3   \* calls made before the document is rendered

AdderNames ==
    {"addFigure", "addTable", "addList", "addEquation", "addAlgorithm", "addTheorem"}

AddObjects ==
    { Article(DocTitle, DocAuthor, <<>>, "ENGLISH"),
      Presentation(DocTitle, DocAuthor, <<>>, "ENGLISH") }

AddInit ==
    /\ doc \in AddObjects
    /\ out = <<>>
    /\ calls = <<>>
    /\ SanIdle /\ EnvIdle /\ BibIdle

\* the call c was made: the text handed out before is out of date
AddCalled(c) ==
    /\ calls' = Append(calls, c)
    /\ out' = <<>>
    /\ UNCHANGED <<content, result, pos, inMathMode, startMathPos, sanPc, env, bib, files, ret>>

\* an adder ran: it returns the handle of the environment it attached last
AdderReturned(name) ==
    AddCalled(<<name, Len(doc'.m_environments),
                doc'.m_environments[Len(doc'.m_environments)]>>)

AddAddPackage ==
    /\ Len(calls) < MaxAddCalls
    /\ doc' = addPackage(doc, "graphicx", <<"draft">>)
    /\ AddCalled(<<"addPackage", 0, "graphicx">>)

AddAddFigure ==
    /\ Len(calls) < MaxAddCalls
    /\ \E label \in Labels :
           doc' = addFigure(doc, <<"img.png">>, <<"Cap">>, label,
                            <<"0.8", "\\textwidth">>, <<"htbp">>)
    /\ AdderReturned("addFigure")

AddAddTable ==
    /\ Len(calls) < MaxAddCalls
    /\ doc' = addTable(doc, SubSeq(HeaderNames, 1, 2), <<"Cap">>, <<>>, <<"htbp">>)
    /\ AdderReturned("addTable")

AddAddList ==
    /\ Len(calls) < MaxAddCalls
    /\ \E type \in {"ITEMIZE", "DESCRIPTION"} : doc' = addList(doc, type)
    /\ AdderReturned("addList")

AddAddEquation ==
    /\ Len(calls) < MaxAddCalls
    /\ doc' = addEquation(doc, <<"E = mc^2">>, <<"eq:e">>, TRUE)
    /\ AdderReturned("addEquation")

AddAddAlgorithm ==
    /\ Len(calls) < MaxAddCalls
    /\ doc' = addAlgorithm(doc, <<"Cap">>, <<>>)
    /\ AdderReturned("addAlgorithm")

AddAddTheorem ==
    /\ Len(calls) < MaxAddCalls
    /\ doc' = addTheorem(doc, "THEOREM", <<"x = y">>, <<>>)
    /\ AdderReturned("addTheorem")

\* the calls made through a handle
HandleAddRow ==
    /\ Len(calls) < MaxAddCalls
    /\ \E k \in 1..Len(doc.m_environments), row \in {<<>>, << <<"a">>, <<"b">> >>} :
           /\ doc.m_environments[k].kind = "Table"
           /\ doc' = viaHandle(doc, k, addRow(doc.m_environments[k], row))
           /\ AddCalled(<<"addRow", k, row>>)

HandleAddItem ==
    /\ Len(calls) < MaxAddCalls
    /\ \E k \in 1..Len(doc.m_environments), label \in Labels :
           /\ doc.m_environments[k].kind = "List"
           /\ doc' = viaHandle(doc, k, addItem(doc.m_environments[k], <<"a">>, label))
           /\ AddCalled(<<"addItem", k, <<"a">>, label>>)

HandleSetWidth ==
    /\ Len(calls) < MaxAddCalls
    /\ \E k \in 1..Len(doc.m_environments) :
           /\ doc.m_environments[k].kind = "Figure"
           /\ doc' = viaHandle(doc, k, setWidth(doc.m_environments[k], <<"5cm">>))
           /\ AddCalled(<<"setWidth", k, <<"5cm">> >>)

HandleSetCaption ==
    /\ Len(calls) < MaxAddCalls
    /\ \E k \in 1..Len(doc.m_environments), caption \in {<<>>, <<"New">>} :
           /\ doc.m_environments[k].kind \in {"Table", "Figure", "Algorithm"}
           /\ doc' = viaHandle(doc, k, setCaption(doc.m_environments[k], caption))
           /\ AddCalled(<<"setCaption", k, caption>>)

HandleAddLine ==
    /\ Len(calls) < MaxAddCalls
    /\ \E k \in 1..Len(doc.m_environments), indent \in 0..1 :
           /\ doc.m_environments[k].kind = "Algorithm"
           /\ doc' = viaHandle(doc, k, addLine(doc.m_environments[k], <<"a">>, indent))
           /\ AddCalled(<<"addLine", k, <<"a">>, indent>>)

AddGenerate ==
    /\ out = <<>>
    /\ out' = generate(doc)
    /\ UNCHANGED <<doc, calls>>
    /\ UNCHANGED <<content, result, pos, inMathMode, startMathPos, sanPc, env, bib, files, ret>>

AddNext ==
    \/ AddAddPackage \/ AddAddFigure \/ AddAddTable \/ AddAddList
    \/ AddAddEquation \/ AddAddAlgorithm \/ AddAddTheorem
    \/ HandleAddRow \/ HandleAddItem \/ HandleSetWidth \/ HandleSetCaption
    \/ HandleAddLine \/ AddGenerate

SpecAdd == AddInit /\ [][AddNext]_vars

(***************************************************************************)
(* Properties of the convenience adders and of their handles, checked      *)
(* under SpecAdd.                                                          *)
(***************************************************************************)
\* the kind of Environment each adder attaches
KindAttachedBy(name) ==
    CASE name = "addFigure" -> "Figure"
      [] name = "addTable" -> "Table"
      [] name = "addList" -> "List"
      [] name = "addEquation" -> "Equation"
      [] name = "addAlgorithm" -> "Algorithm"
      [] name = "addTheorem" -> "Theorem"

\* the package an adder registers ("" when it registers none)
PackageRegisteredBy(name) ==
    CASE name = "addFigure" -> "graphicx"
      [] name = "addEquation" -> "amsmath"
      [] OTHER -> ""

\* the document d without what the adder name is said to touch: the
\* environment sequence, the entry of the package it registers, the flag
\* it enables
ApartFrom(d, name) ==
    [d EXCEPT !.m_environments = <<>>,
              !.m_packages = [x \in (DOMAIN @) \ {PackageRegisteredBy(name)} |-> @[x]],
              !.m_algorithmsEnabled = IF name = "addAlgorithm" THEN TRUE ELSE @,
              !.m_theoremsEnabled = IF name = "addTheorem" THEN TRUE ELSE @]

AfterCall(e, c) ==
    CASE c[1] = "addRow" -> addRow(e, c[3])
      [] c[1] = "addItem" -> addItem(e, c[3], c[4])
      [] c[1] = "setWidth" -> setWidth(e, c[3])
      [] c[1] = "setCaption" -> setCaption(e, c[3])
      [] c[1] = "addLine" -> addLine(e, c[3], c[4])

\* the object the k-th handle was returned with, after the calls of cs that
\* went through this handle, in order
RECURSIVE ChangedBeforehand(_, _, _)
ChangedBeforehand(e, k, cs) ==
    IF cs = <<>> THEN e
    ELSE IF Head(cs)[1] \notin AdderNames \cup {"addPackage"} /\ Head(cs)[2] = k
         THEN ChangedBeforehand(AfterCall(e, Head(cs)), k, Tail(cs))
         ELSE ChangedBeforehand(e, k, Tail(cs))

\* the adder calls of the history, in order
AdderCalls == SelectSeq(calls, LAMBDA c : c[1] \in AdderNames)

\* the document with every environment changed before it was attached
AsIfChangedBeforehand ==
    [doc EXCEPT !.m_environments =
        [k \in 1..Len(AdderCalls) |-> ChangedBeforehand(AdderCalls[k][3], k, calls)]]

\* C17: a change made through the handle an adder returned, after the
\* environment was attached, shows in the next generate() text just as if
\* the environment had been changed that way before it was attached
C17_HandleChangesShow ==
    out # <<>> => out = generate(AsIfChangedBeforehand)

\* C17 witness: a table attached with addTable, a row added through the
\* handle afterwards, and the text rendered with the cells of that row
C17_Witness ==
    /\ out # <<>>
    /\ Len(calls) >= 2
    /\ calls[1][1] = "addTable"
    /\ calls[2] = <<"addRow", 1, << <<"a">>, <<"b">> >> >>
    /\ calls[1][3].m_rows = <<>>
    /\ Contains(out, <<"a", " & ", "b">>)

\* C26: the adders that register a package leave the options of a package
\* that is registered already as they are: once addPackage("graphicx",
\* "draft") was called, the preamble of every text generated afterwards
\* carries the line \usepackage[draft]{graphicx}, whatever adders were
\* called in between
C26_OptionsKept ==
    (out # <<>> /\ \E i \in 1..Len(calls) : calls[i][1] = "addPackage") =>
        Contains(PreambleOf(out),
                 <<"\\usepackage", "[", "draft", "]", "{", "graphicx", "}", "\n">>)

(***************************************************************************)
(* SpecOrd: one document of any of the four variants to which raw content  *)
(* fragments, Sections and Environments are attached in any interleaving,  *)
(* and rendered with generate().  There calls holds the attaching calls    *)
(* made so far, in order, each with the item it attached.                  *)
(***************************************************************************)
MaxOrdCalls == 4    \* attaching calls made on the document

OrdRaws == {<<"\\clearpage">>, <<"\\newpage">>}
OrdSections ==
    { addContent(Section(<<"Intro">>, "SECTION"), <<"first text">>),
      addContent(Section(<<"Method">>, "SUBSECTION"), <<"second text">>),
      addContent(Section(<<"a", "}", "b">>, "SECTION"), <<"third text">>),
      addContent(addContent(Section(<<"Code">>, "SECTION"), <<"fourth text">>),
                 ListingLine) }
OrdEnvironments ==
    { setContent(Equation(TRUE), <<"x = y">>),
      TheoremEnvironment("LEMMA", <<"a claim">>, <<>>) }

OrdInit ==
    /\ doc \in { Article(DocTitle, DocAuthor, <<>>, "ENGLISH"),
                 Report(DocTitle, DocAuthor, <<>>, "ENGLISH"),
                 Book(DocTitle, DocAuthor, <<>>, "ENGLISH"),
                 Presentation(DocTitle, DocAuthor, <<>>, "ENGLISH") }
    /\ out = <<>>
    /\ calls = <<>>
    /\ SanIdle /\ EnvIdle /\ BibIdle

\* an attaching call c was made: the text handed out before is out of date
OrdCalled(c) ==
    /\ calls' = Append(calls, c)
    /\ out' = <<>>
    /\ UNCHANGED <<content, result, pos, inMathMode, startMathPos, sanPc, env, bib, files, ret>>

OrdAddRawContent ==
    /\ Len(calls) < MaxOrdCalls
    /\ \E c \in OrdRaws :
           /\ doc' = addRawContent(doc, c)
           /\ OrdCalled(<<"addRawContent", c>>)

OrdAddSection ==
    /\ Len(calls) < MaxOrdCalls
    /\ \E section \in OrdSections :
           /\ doc' = addSection(doc, section)
           /\ OrdCalled(<<"addSection", section>>)

OrdAddEnvironment ==
    /\ Len(calls) < MaxOrdCalls
    /\ \E e \in OrdEnvironments :
           /\ doc' = addEnvironment(doc, e)
           /\ OrdCalled(<<"addEnvironment", e>>)

OrdGenerate ==
    /\ out = <<>>
    /\ out' = generate(doc)
    /\ UNCHANGED <<doc, calls>>
    /\ UNCHANGED <<content, result, pos, inMathMode, startMathPos, sanPc, env, bib, files, ret>>

OrdNext ==
    \/ OrdAddRawContent \/ OrdAddSection \/ OrdAddEnvironment \/ OrdGenerate

SpecOrd == OrdInit /\ [][OrdNext]_vars

\* the items the calls of one adder attached, in the order of the calls
RECURSIVE AttachedBy(_, _)
AttachedBy(adder, cs) ==
    IF cs = <<>> THEN <<>>
    ELSE (IF Head(cs)[1] = adder THEN <<Head(cs)[2]>> ELSE <<>>)
         \o AttachedBy(adder, Tail(cs))

\* the one value of the rendered text that tells an attached item from the
\* other items: the fragment itself, the content line of a Section, the
\* content of an Environment
MarkOf(adder, item) ==
    IF adder = "addRawContent" THEN item
    ELSE IF adder = "addSection" THEN item.m_content[1]
    ELSE item.m_content

\* C23: in the body of every variant the raw fragments, the Sections and
\* the Environments each come in the order they were attached, and every
\* attached item is rendered exactly once
C23_AttachmentOrder ==
    out # <<>> =>
        \A adder \in {"addRawContent", "addSection", "addEnvironment"} :
            LET items == AttachedBy(adder, calls)
                body == BodyOf(out)
            IN  /\ PastInOrder(body, [k \in 1..Len(items) |-> MarkOf(adder, items[k])], 0) # npos
                /\ \A k \in 1..Len(items) :
                       Cardinality(Places(body, MarkOf(adder, items[k])))
                           = Cardinality({h \in 1..Len(items) : items[h] = items[k]})

\* a Presentation rendered after two different Sections and a raw fragment
\* were attached
C23_Witness ==
    /\ out # <<>>
    /\ doc.class = "Presentation"
    /\ \E i, j \in 1..Len(calls) :
           /\ i < j
           /\ calls[i][1] = "addSection" /\ calls[j][1] = "addSection"
           /\ calls[i][2] # calls[j][2]
    /\ \E i \in 1..Len(calls) : calls[i][1] = "addRawContent"

\* C24: for every Section attached to a Presentation the \section command
\* and the frame title carry the title the Section was constructed with, and
\* the frame holds the content lines of the Section and nothing of the
\* title, also for a title with a brace in it
C24_SectionTitleKept ==
    (out # <<>> /\ doc.class = "Presentation") =>
        \A k \in 1..Len(AttachedBy("addSection", calls)) :
            LET section == AttachedBy("addSection", calls)[k]
            IN  Contains(BodyOf(out),
                         <<"\\section", "{">> \o section.m_title \o <<"}", "\n", "\n">>
                         \o <<"\\begin{frame}", "{">> \o section.m_title \o <<"}", "\n">>
                         \o <<"\n">> \o Flatten([i \in 1..Len(section.m_content) |->
                                                     section.m_content[i] \o <<"\n">>])
                         \o <<"\\end{frame}">>)

\* C28: every frame of the body of a Presentation that holds the marker
\* \begin{lstlisting} between its \begin{frame} and its \end{frame} is
\* opened with the [fragile] option, whichever stream it comes from
C28_FragileFrames ==
    (out # <<>> /\ doc.class = "Presentation") =>
        LET body == BodyOf(out)
        IN  \A i \in Places(body, <<"\\begin{frame}">>) :
                LET j == CHOOSE e \in Places(body, <<"\\end{frame}">>) :
                             /\ e > i
                             /\ \A h \in Places(body, <<"\\end{frame}">>) : h > i => e <= h
                IN  Contains(SubSeq(body, i, j), lstlistingMarker) =>
                        body[i + 1] = "[fragile]"

(***************************************************************************)
(* SpecLang: one document of any of the four variants, constructed in one  *)
(* language, whose language is then changed with setLanguage, and rendered *)
(* with generate().  There calls holds the languages setLanguage was       *)
(* called with, in order.                                                  *)
(***************************************************************************)
MaxLangCalls == 2   \* setLanguage calls made on the document

LangPool == {"ENGLISH", "FRENCH", "GERMAN", "RUSSIAN"}

LangInit ==
    /\ doc \in UNION {{ Article(DocTitle, DocAuthor, <<>>, language),
                        Report(DocTitle, DocAuthor, <<>>, language),
                        Book(DocTitle, DocAuthor, <<>>, language),
                        Presentation(DocTitle, DocAuthor, <<>>, language) } :
                      language \in LangPool}
    /\ out = <<>>
    /\ calls = <<>>
    /\ SanIdle /\ EnvIdle /\ BibIdle

LangSetLanguage ==
    /\ Len(calls) < MaxLangCalls
    /\ \E language \in LangPool :
           /\ doc' = setLanguage(doc, language)
           /\ calls' = Append(calls, language)
    /\ out' = <<>>
    /\ UNCHANGED <<content, result, pos, inMathMode, startMathPos, sanPc, env, bib, files, ret>>

LangGenerate ==
    /\ out = <<>>
    /\ out' = generate(doc)
    /\ UNCHANGED <<doc, calls>>
    /\ UNCHANGED <<content, result, pos, inMathMode, startMathPos, sanPc, env, bib, files, ret>>

LangNext == LangSetLanguage \/ LangGenerate

SpecLang == LangInit /\ [][LangNext]_vars

\* C27: babel is registered, with getBabelLanguageName of the current
\* language as its options, exactly when the current language is not
\* ENGLISH, and the preamble carries the babel line together with the
\* configuration block of that language, also after setLanguage
C27_BabelMatchesLanguage ==
    /\ ("babel" \in DOMAIN doc.m_packages) <=> (doc.m_language # "ENGLISH")
    /\ doc.m_language # "ENGLISH" =>
           doc.m_packages["babel"] = getBabelLanguageName(doc.m_language)
    /\ (out # <<>> /\ doc.m_language # "ENGLISH") =>
           /\ Contains(PreambleOf(out),
                       <<"\\usepackage", "[">> \o getBabelLanguageName(doc.m_language)
                       \o <<"]", "{", "babel", "}", "\n">>)
           /\ Contains(PreambleOf(out), getLanguageConfiguration(doc))

=============================================================================
